---- MODULE Spec2Model ----
(***************************************************************************)
(* fm-actions: a command-line client of the CloudBees feature-management    *)
(* REST API.  One process run executes one command handler (cobra RunE),    *)
(* which issues a strict sequence of blocking HTTP calls through            *)
(* internal/cloudbees.Client.  The model keeps the handler's position, the  *)
(* requests it sent, the answers it got, and the state of the server.       *)
(***************************************************************************)
EXTENDS Integers, Sequences, FiniteSets, TLC

(***************************************************************************)
(* Values.  A JSON/YAML value is [t |-> type, v |-> text]; a mapping        *)
(* (map[string]interface{}) is a function from the keys it holds.           *)
(***************************************************************************)
Unset == "<unset>"

JBool(b) == [t |-> "bool", v |-> IF b THEN "true" ELSE "false"]

JNum(n) == [t |-> "num", v |-> n]

JStr(s) == [t |-> "str", v |-> s]

JNull == [t |-> "null", v |-> "null"]

EmptyMap == [k \in {} |-> JNull]

NoBody == EmptyMap

\* strconv.ParseBool: the texts it accepts, and the value of each.
ParseBoolTrue == {"1", "t", "T", "TRUE", "true", "True"}

ParseBoolFalse == {"0", "f", "F", "FALSE", "false", "False"}

ParseBool(s) ==
    IF s \in ParseBoolTrue THEN [ok |-> TRUE, val |-> TRUE]
    ELSE IF s \in ParseBoolFalse THEN [ok |-> TRUE, val |-> FALSE]
    ELSE [ok |-> FALSE, val |-> FALSE]

\* json.Unmarshal of the --default-value text into interface{}: the texts of
\* the input domain that are JSON documents, each with its decoded value.
JsonTexts == {"42", "true", "false", "null", "\"x\"", "{\"a\":1}", "[1,2]"}

JsonUnmarshal(s) ==
    CASE s = "42" -> [ok |-> TRUE, val |-> JNum("42")]
      [] s = "true" -> [ok |-> TRUE, val |-> JBool(TRUE)]
      [] s = "false" -> [ok |-> TRUE, val |-> JBool(FALSE)]
      [] s = "null" -> [ok |-> TRUE, val |-> JNull]
      [] s = "\"x\"" -> [ok |-> TRUE, val |-> JStr("x")]
      [] s = "{\"a\":1}" -> [ok |-> TRUE, val |-> [t |-> "object", v |-> "{a: 1}"]]
      [] s = "[1,2]" -> [ok |-> TRUE, val |-> [t |-> "list", v |-> "[1, 2]"]]
      [] OTHER -> [ok |-> FALSE, val |-> JNull]

\* yaml.Unmarshal of the --config text into map[string]interface{}: a mapping
\* document decodes to its keys, "{}" and "null" to no key, a sequence or a
\* scalar document is an error.
YamlUnmarshal(s) ==
    CASE s = "enabled: true\ndefaultValue: x" ->
            [ok |-> TRUE, val |-> ("enabled" :> JBool(TRUE)) @@ ("defaultValue" :> JStr("x"))]
      [] s = "enabled: false" ->
            [ok |-> TRUE, val |-> ("enabled" :> JBool(FALSE))]
      [] s = "defaultValue: 7\nvariantsEnabled: true\nstickinessProperty: email" ->
            [ok |-> TRUE, val |-> ("defaultValue" :> JNum("7")) @@ ("variantsEnabled" :> JBool(TRUE))
                                   @@ ("stickinessProperty" :> JStr("email"))]
      [] s = "conditions: []\nrollout: 10" ->
            [ok |-> TRUE, val |-> ("conditions" :> [t |-> "list", v |-> "[]"]) @@ ("rollout" :> JNum("10"))]
      [] s = "enabled: \"on\"" -> [ok |-> TRUE, val |-> ("enabled" :> JStr("on"))]
      [] s = "{}" -> [ok |-> TRUE, val |-> EmptyMap]
      [] s = "null" -> [ok |-> TRUE, val |-> EmptyMap]
      [] OTHER -> [ok |-> FALSE, val |-> EmptyMap]

(***************************************************************************)
(* The configuration merge of set-flag-config (set-flag-config.go 75-119).  *)
(* ov is the record of the four override texts, yamlText the --config text. *)
(* The result is [err |-> message or "", changes |-> merged mapping].       *)
(***************************************************************************)
ApplyYaml(yamlText) ==
    IF yamlText # "" THEN YamlUnmarshal(yamlText) ELSE [ok |-> TRUE, val |-> EmptyMap]

\* Mutant: the document's "enabled" survives the --enabled override.
ApplyEnabled_DocumentWins(m, text) ==
    IF text # "" THEN m @@ ("enabled" :> JBool(ParseBool(text).val)) ELSE m

ApplyEnabled(m, text) ==
    IF text # "" THEN ("enabled" :> JBool(ParseBool(text).val)) @@ m ELSE m

\* Mutant: the text null as a default value counts as no override.
ApplyDefaultValue_NullIsAbsent(m, text) ==
    IF text # "" /\ text # "null"
    THEN ("defaultValue" :> (IF JsonUnmarshal(text).ok THEN JsonUnmarshal(text).val ELSE JStr(text))) @@ m
    ELSE m

\* Mutant: the --default-value text is always taken as a literal string.
ApplyDefaultValue_AlwaysString(m, text) ==
    IF text # "" THEN ("defaultValue" :> JStr(text)) @@ m ELSE m

ApplyDefaultValue(m, text) ==
    IF text # ""
    THEN ("defaultValue" :> (IF JsonUnmarshal(text).ok THEN JsonUnmarshal(text).val ELSE JStr(text))) @@ m
    ELSE m

ApplyVariantsEnabled(m, text) ==
    IF text # "" THEN ("variantsEnabled" :> JBool(ParseBool(text).val)) @@ m ELSE m

ApplyStickiness(m, text) ==
    IF text # "" THEN ("stickinessProperty" :> JStr(text)) @@ m ELSE m

\* Mutant: a boolean override that does not parse counts as false, a
\* document that is not a mapping as an empty one.
BuildConfigChanges_Lenient(yamlText, ov) ==
    LET y == ApplyYaml(yamlText)
        m1 == ApplyEnabled(y.val, ov.enabled)
        m2 == ApplyDefaultValue(m1, ov.defaultValue)
        m3 == ApplyVariantsEnabled(m2, ov.variantsEnabled)
        m4 == ApplyStickiness(m3, ov.stickinessProperty)
    IN  IF DOMAIN m4 = {}
        THEN [err |-> "no configuration changes specified", changes |-> m4]
        ELSE [err |-> "", changes |-> m4]

\* Mutant: the merge without its check for an empty change set.
BuildConfigChanges_NoEmptyCheck(yamlText, ov) ==
    LET y == ApplyYaml(yamlText)
        m1 == ApplyEnabled(y.val, ov.enabled)
        m2 == ApplyDefaultValue(m1, ov.defaultValue)
        m3 == ApplyVariantsEnabled(m2, ov.variantsEnabled)
        m4 == ApplyStickiness(m3, ov.stickinessProperty)
    IN  IF ~y.ok THEN [err |-> "failed to parse config YAML", changes |-> EmptyMap]
        ELSE IF ov.enabled # "" /\ ~ParseBool(ov.enabled).ok
             THEN [err |-> "invalid enabled value", changes |-> y.val]
        ELSE IF ov.variantsEnabled # "" /\ ~ParseBool(ov.variantsEnabled).ok
             THEN [err |-> "invalid variants-enabled value", changes |-> m2]
        ELSE [err |-> "", changes |-> m4]

BuildConfigChanges(yamlText, ov) ==
    LET y == ApplyYaml(yamlText)
        m1 == ApplyEnabled(y.val, ov.enabled)
        m2 == ApplyDefaultValue(m1, ov.defaultValue)
        m3 == ApplyVariantsEnabled(m2, ov.variantsEnabled)
        m4 == ApplyStickiness(m3, ov.stickinessProperty)
    IN  IF ~y.ok THEN [err |-> "failed to parse config YAML", changes |-> EmptyMap]
        ELSE IF ov.enabled # "" /\ ~ParseBool(ov.enabled).ok
             THEN [err |-> "invalid enabled value", changes |-> y.val]
        ELSE IF ov.variantsEnabled # "" /\ ~ParseBool(ov.variantsEnabled).ok
             THEN [err |-> "invalid variants-enabled value", changes |-> m2]
        ELSE IF DOMAIN m4 = {}
             THEN [err |-> "no configuration changes specified", changes |-> m4]
        ELSE [err |-> "", changes |-> m4]

(***************************************************************************)
(* The server: the REST API the client talks to.  Applications and          *)
(* environments are read-only; flags are created and deleted; a flag has    *)
(* one configuration per environment, which PUT updates key by key.         *)
(***************************************************************************)
ValidToken == "tok"

OrgID == "org-1"

\* A second organization of the same token, with no application and no
\* environment yet.
EmptyOrgID == "org-0"

ServerApps ==
    << [id |-> "app-0", name |-> "other"],
       [id |-> "app-1", name |-> "app1"],
       [id |-> "app-2", name |-> "app1"] >>

ServerEnvs ==
    << [id |-> "env-0", name |-> "prod"],
       [id |-> "env-1", name |-> "dev"],
       [id |-> "env-2", name |-> "dev"] >>

FlagNames == {"f1", "f2"}

FlagIdOf(name) == IF name = "f1" THEN "flag-1" ELSE "flag-2"

FlagIds == {FlagIdOf(n) : n \in FlagNames}

EnvIds == {ServerEnvs[i].id : i \in 1..Len(ServerEnvs)}

DefaultConfig == ("enabled" :> JBool(FALSE)) @@ ("defaultValue" :> JNull)

ServerInit ==
    [flags |-> {[app |-> "app-1", id |-> "flag-1", name |-> "f1"]},
     config |-> [k \in FlagIds \X EnvIds |-> DefaultConfig]]

Is2xx(status) == status >= 200 /\ status <= 299

MutatingMethods == {"PUT", "POST", "DELETE"}

HttpResp(status, body, data) == [kind |-> "http", status |-> status, body |-> body, data |-> data]

TransportFailure == [kind |-> "neterr", status |-> 0, body |-> "", data |-> <<>>]

\* The answers of a healthy server: any success status, with the JSON payload
\* where the status carries one, or a well-formed 200 whose body is not the
\* expected JSON.
Served(data) ==
    {HttpResp(200, "json", data), HttpResp(201, "json", data), HttpResp(204, "", <<>>),
     HttpResp(200, "not json", <<>>)}

Unavailable == {HttpResp(500, "internal error", <<>>), TransportFailure}

FlagsOfApp(srv, app) == {f \in srv.flags : f.app = app}

\* The applications and the environments of an organization, as listed.
OrgApps(org) == IF org = OrgID THEN ServerApps ELSE <<>>

OrgEnvs(org) == IF org = OrgID THEN ServerEnvs ELSE <<>>

\* The flags of an application as the API lists them, in identifier order.
FlagList(srv, app) ==
    LET ids == SelectSeq(<<"flag-1", "flag-2">>, LAMBDA id : \E f \in FlagsOfApp(srv, app) : f.id = id)
    IN  [i \in 1..Len(ids) |-> CHOOSE f \in FlagsOfApp(srv, app) : f.id = ids[i]]

FlagEnabledSomewhere(srv, flagId) ==
    \E e \in EnvIds : srv.config[<<flagId, e>>]["enabled"] = JBool(TRUE)

FlagPayload(f, flagType) == [id |-> f.id, name |-> f.name, flagType |-> flagType]

\* The set of answers the server may give to a request in state srv.
ServerAnswers(srv, req) ==
    IF req.token # ValidToken THEN {HttpResp(401, "unauthorized", <<>>), TransportFailure}
    ELSE IF req.org \notin {OrgID, EmptyOrgID} THEN {HttpResp(404, "organization not found", <<>>), TransportFailure}
    ELSE Unavailable \cup
      CASE req.op = "ListApplications" -> Served(OrgApps(req.org))
        [] req.op = "ListEnvironments" -> Served(OrgEnvs(req.org))
        [] req.op = "ListFlags" -> Served(FlagList(srv, req.app))
        [] req.op = "GetFlagByName" ->
             IF \E f \in FlagsOfApp(srv, req.app) : f.name = req.flag
             THEN Served(FlagPayload(CHOOSE f \in FlagsOfApp(srv, req.app) : f.name = req.flag, "Boolean"))
             ELSE {HttpResp(404, "flag not found", <<>>)}
        [] req.op = "GetFlagConfiguration" ->
             IF (\E f \in FlagsOfApp(srv, req.app) : f.id = req.flag) /\ req.env \in EnvIds
             THEN Served(srv.config[<<req.flag, req.env>>])
             ELSE {HttpResp(404, "configuration not found", <<>>)}
        [] req.op \in {"SetFlagConfiguration", "UpdateFlagConfiguration"} ->
             IF (\E f \in FlagsOfApp(srv, req.app) : f.id = req.flag) /\ req.env \in EnvIds
             THEN Served(<<>>)
             ELSE {HttpResp(404, "configuration not found", <<>>)}
        [] req.op = "CreateFlag" ->
             IF req.body.name \in FlagNames /\ ~(\E f \in srv.flags : f.name = req.body.name)
             THEN Served(FlagPayload([id |-> FlagIdOf(req.body.name), name |-> req.body.name],
                                     req.body.flagType))
             ELSE {HttpResp(409, "flag already exists", <<>>)}
        [] req.op = "DeleteFlag" ->
             IF ~(\E f \in FlagsOfApp(srv, req.app) : f.id = req.flag)
             THEN {HttpResp(404, "flag not found", <<>>)}
             ELSE IF FlagEnabledSomewhere(srv, req.flag)
             THEN {HttpResp(400, "flag is enabled", <<>>)}
             ELSE Served(<<>>)

\* The server's state after it answered resp to req: a mutating request that
\* got a success status has been carried out.
ServerApply(srv, req, resp) ==
    IF resp.kind # "http" \/ ~Is2xx(resp.status) THEN srv
    ELSE CASE req.op = "SetFlagConfiguration" ->
                [srv EXCEPT !.config[<<req.flag, req.env>>] = req.body @@ @]
           [] req.op = "UpdateFlagConfiguration" ->
                [srv EXCEPT !.config[<<req.flag, req.env>>] = req.body.configuration @@ @]
           [] req.op = "CreateFlag" ->
                [srv EXCEPT !.flags = @ \cup {[app |-> req.app, id |-> FlagIdOf(req.body.name),
                                               name |-> req.body.name]}]
           [] req.op = "DeleteFlag" ->
                [flags |-> {f \in srv.flags : ~(f.app = req.app /\ f.id = req.flag)},
                 config |-> [k \in FlagIds \X EnvIds |->
                               IF k[1] = req.flag THEN DefaultConfig ELSE srv.config[k]]]
           [] OTHER -> srv

(***************************************************************************)
(* The process: one command invocation at a time.                           *)
(***************************************************************************)
VARIABLES
    server,          \* the server's flags and configurations
    serverAtStart,   \* the server's state when the current invocation began
    lastGet,         \* whether the invocation just before was a successful get-flag-config
    cmd,             \* the command being run, "none" between invocations
    args,            \* its command-line inputs and environment
    pc,              \* the client call the handler is about to make
    client,          \* the cloudbees.Client the handler built
    application,     \* the resolved application
    flag,            \* the resolved flag
    environmentID,   \* the resolved environment identifier
    configChanges,   \* set-flag-config's merged mapping
    reqs,            \* the HTTP requests sent by this invocation, in order
    resps,           \* the answer to each
    err,             \* the error RunE returned
    exitCode,        \* the exit code of the process, -1 while it runs
    outputs,         \* the output files written, and the outputs only warned about
    stdout           \* what was printed

vars == <<server, serverAtStart, lastGet, cmd, args, pc, client, application, flag,
          environmentID, configChanges, reqs, resps, err, exitCode, outputs, stdout>>

Commands == {"list-environments", "list-flags", "create-flag", "get-flag-config",
             "set-flag-config", "delete-flag"}

\* The flags cobra checks before RunE: those marked required on a flag set
\* that defines them.
RequiredFlags(c) ==
    {"token", "orgID"}
      \cup (IF c \in {"create-flag", "get-flag-config", "set-flag-config", "delete-flag"}
            THEN {"flagName"} ELSE {})
      \cup (IF c \in {"get-flag-config", "set-flag-config"} THEN {"environmentName"} ELSE {})

\* The value of a string flag: its default when it was not given.
FlagValue(a, name) ==
    IF a[name] # Unset THEN a[name]
    ELSE IF name = "flagType" THEN "Boolean" ELSE ""

NoErr == [msg |-> "", name |-> "", cause |-> "", status |-> 0, body |-> "", missing |-> {}]

ValidationErr(msg) ==
    [msg |-> msg, name |-> "", cause |-> "", status |-> 0, body |-> "", missing |-> {}]

\* Mutant: cobra's error without the names of the flags that are not set.
RequiredFlagsErr_Unnamed(missing) ==
    [msg |-> "required flag(s) not set", name |-> "", cause |-> "", status |-> 0, body |-> "",
     missing |-> {}]

\* cobra's validateRequiredFlags: required flag(s) "a", "b" not set.
RequiredFlagsErr(missing) ==
    [msg |-> "required flag(s) not set", name |-> "", cause |-> "", status |-> 0, body |-> "",
     missing |-> missing]

NotFoundErr(msg, name, cause) ==
    [msg |-> msg, name |-> name, cause |-> cause, status |-> 0, body |-> "", missing |-> {}]

NoClient == [token |-> "", orgID |-> "", useOrgAsApp |-> FALSE]

NoEntity == [id |-> "", name |-> ""]

NoArgs ==
    [token |-> Unset, orgID |-> Unset, applicationName |-> Unset, flagName |-> Unset,
     environmentName |-> Unset, enabled |-> "", defaultValue |-> "", variantsEnabled |-> "",
     stickinessProperty |-> "", configYAML |-> "", dryRun |-> FALSE, confirm |-> FALSE,
     flagType |-> Unset, variantsStr |-> "", outDir |-> ""]

NoGet == [done |-> FALSE, names |-> <<>>, unchanged |-> TRUE]

\* NewClient / NewClientWithOptions: the error, or "" and the client.
NewClientWithOptions(token, orgID, useOrgAsApp) ==
    IF token = "" THEN [err |-> "token is required", client |-> NoClient]
    ELSE IF orgID = "" THEN [err |-> "organization ID is required", client |-> NoClient]
    ELSE [err |-> "", client |-> [token |-> token, orgID |-> orgID, useOrgAsApp |-> useOrgAsApp]]

NewClient(token, orgID) == NewClientWithOptions(token, orgID, FALSE)

\* Mutant: the organization ID in the place of the resolved application ID.
ApiAppID_UsesOrg(c, applicationID) == c.orgID

\* The application ID a flag-scoped call puts in its path.
ApiAppID(c, applicationID) == IF c.useOrgAsApp THEN c.orgID ELSE applicationID

Request(c, method, op, app, flagRef, env, body) ==
    [method |-> method, op |-> op, token |-> c.token, org |-> c.orgID,
     app |-> app, flag |-> flagRef, env |-> env, body |-> body]

\* The request each client method sends: the organization-level calls put
\* the organization ID in the path, the flag-scoped calls the application
\* ID that ApiAppID gives.
ListEnvironmentsRequest(c) == Request(c, "GET", "ListEnvironments", "-", "-", "-", NoBody)

ListApplicationsRequest(c) == Request(c, "GET", "ListApplications", "-", "-", "-", NoBody)

GetFlagByNameRequest(c, applicationID, flagName) ==
    Request(c, "GET", "GetFlagByName", ApiAppID(c, applicationID), flagName, "-", NoBody)

\* Mutant: the configuration read puts the application ID passed in the
\* path whatever the client's mode.
GetFlagConfigurationRequest_IgnoresMode(c, applicationID, flagID, envID) ==
    Request(c, "GET", "GetFlagConfiguration", applicationID, flagID, envID, NoBody)

GetFlagConfigurationRequest(c, applicationID, flagID, envID) ==
    Request(c, "GET", "GetFlagConfiguration", ApiAppID(c, applicationID), flagID, envID, NoBody)

\* json encoding of a FlagConfiguration: every field but the stickiness
\* property is written, a field that is not set with its zero value.
FlagConfigurationJSON(config) ==
    config @@ ("enabled" :> JBool(FALSE)) @@ ("defaultValue" :> JNull)
           @@ ("conditions" :> JNull) @@ ("variantsEnabled" :> JBool(FALSE))

\* The typed update: the configuration wrapped in a "configuration" object.
UpdateFlagConfigurationRequest(c, applicationID, flagID, envID, config) ==
    Request(c, "PUT", "UpdateFlagConfiguration", ApiAppID(c, applicationID), flagID, envID,
            [configuration |-> FlagConfigurationJSON(config)])

\* Mutant: the mapping is sent as a FlagConfiguration, with its zero values.
SetFlagConfigurationRequest_Typed(c, applicationID, flagID, envID, config) ==
    Request(c, "PUT", "SetFlagConfiguration", ApiAppID(c, applicationID), flagID, envID,
            FlagConfigurationJSON(config))

\* The mapping is the request body as it is.
SetFlagConfigurationRequest(c, applicationID, flagID, envID, config) ==
    Request(c, "PUT", "SetFlagConfiguration", ApiAppID(c, applicationID), flagID, envID, config)

ListFlagsRequest(c, applicationID) ==
    Request(c, "GET", "ListFlags", ApiAppID(c, applicationID), "-", "-", NoBody)

CreateFlagRequest(c, applicationID, name, flagType, description, variants, isPermanent) ==
    Request(c, "POST", "CreateFlag", ApiAppID(c, applicationID), "-", "-",
            [name |-> name, flagType |-> flagType, variants |-> variants,
             description |-> description, isPermanent |-> isPermanent])

DeleteFlagRequest(c, applicationID, flagID) ==
    Request(c, "DELETE", "DeleteFlag", ApiAppID(c, applicationID), flagID, "-", NoBody)

\* Mutant: the DELETE counts any answer below 500 as a success.
AcceptedStatuses_DeleteAny(op) ==
    IF op = "CreateFlag" THEN {200, 201}
    ELSE IF op = "DeleteFlag" THEN {200, 204, 400, 404}
    ELSE {200}

\* The status check of each client method, and what the method returns:
\* "" for success, else the kind of error.
AcceptedStatuses(op) ==
    IF op = "CreateFlag" THEN {200, 201}
    ELSE IF op = "DeleteFlag" THEN {200, 204}
    ELSE {200}

DecodesBody(op) == op \notin {"SetFlagConfiguration", "UpdateFlagConfiguration", "DeleteFlag"}

\* json decoding into the typed response: a configuration whose "enabled"
\* is not a boolean does not decode into FlagConfiguration.
Decodable(op, data) ==
    (op = "GetFlagConfiguration" /\ "enabled" \in DOMAIN data)
        => data["enabled"].t \in {"bool", "null"}

CallErr(op, resp) ==
    IF resp.kind # "http" THEN "transport"
    ELSE IF resp.status \notin AcceptedStatuses(op) THEN "API request failed"
    ELSE IF DecodesBody(op) /\ (resp.body # "json" \/ ~Decodable(op, resp.data)) THEN "decode"
    ELSE ""

\* Mutant: the API error keeps the status and drops the response body.
Wrap_StatusOnly(msg, name, op, resp) ==
    [msg |-> msg, name |-> name, cause |-> CallErr(op, resp),
     status |-> IF CallErr(op, resp) = "API request failed" THEN resp.status ELSE 0,
     body |-> "", missing |-> {}]

\* fmt.Errorf("<msg> '<name>': %w", err) around the error of a client method.
Wrap(msg, name, op, resp) ==
    [msg |-> msg, name |-> name, cause |-> CallErr(op, resp),
     status |-> IF CallErr(op, resp) = "API request failed" THEN resp.status ELSE 0,
     body |-> IF CallErr(op, resp) = "API request failed" THEN resp.body ELSE "",
     missing |-> {}]

\* Mutant: the scan keeps going and returns the last element with the name.
FirstIndex_LastMatch(list, name, i) ==
    IF \E j \in i..Len(list) : list[j].name = name
    THEN CHOOSE j \in i..Len(list) : list[j].name = name /\ \A k \in (j + 1)..Len(list) : list[k].name # name
    ELSE 0

\* Mutant: the scan falls back to the first element when no name matches.
FirstIndex_DefaultsToFirst(list, name, i) ==
    IF \E j \in i..Len(list) : list[j].name = name
    THEN CHOOSE j \in i..Len(list) : list[j].name = name /\ \A k \in i..(j - 1) : list[k].name # name
    ELSE 1

\* The first element of list with the given name, 0 when there is none.
RECURSIVE FirstIndex(_, _, _)
FirstIndex(list, name, i) ==
    IF i > Len(list) THEN 0
    ELSE IF list[i].name = name THEN i
    ELSE FirstIndex(list, name, i + 1)

\* Mutant: the loop takes the first environment whatever its name.
FindEnvironmentID_IgnoresName(environments, name) ==
    IF Len(environments) = 0 THEN "" ELSE environments[1].id

\* The environment loop of get-flag-config and set-flag-config.
FindEnvironmentID(environments, name) ==
    IF FirstIndex(environments, name, 1) = 0 THEN ""
    ELSE environments[FirstIndex(environments, name, 1)].id

\* os.WriteFile into a directory: it goes through when the directory exists.
Writable(dir) == dir = "/out"

\* Mutant: the file is written whether or not $CLOUDBEES_OUTPUTS is set.
WriteOutput_AlwaysWrites(outs, a, name, value) ==
    [outs EXCEPT !.files = (name :> value) @@ @]

\* cloudbees.WriteOutput: the file <name> holding the value in
\* $CLOUDBEES_OUTPUTS; a warning on stdout, and nothing else, when the
\* variable is not set (the line shows name and value) or when the write
\* fails (the line shows the name).
WriteOutput(outs, a, name, value) ==
    IF a.outDir = ""
    THEN [outs EXCEPT !.warned = (name :> [why |-> "not set", shown |-> <<value>>]) @@ @]
    ELSE IF ~Writable(a.outDir)
    THEN [outs EXCEPT !.warned = (name :> [why |-> "write failed", shown |-> <<>>]) @@ @]
    ELSE [outs EXCEPT !.files = (name :> value) @@ @]

NoOutputs == [files |-> [k \in {} |-> ""], warned |-> [k \in {} |-> ""]]

\* Mutant: every value is encoded as the empty array.
JsonMarshal_AlwaysEmptyArray(v) == [json |-> << <<>> >>]

\* json.Marshal: the JSON text of a value.
JsonMarshal(v) == [json |-> <<v>>]

\* The literal texts "null" and "[]".
NullText == [json |-> <<JNull>>]

EmptyArrayText == [json |-> << <<>> >>]

\* fmt.Sprintf("%d", n) on the counts of the input domain.
Itoa(n) ==
    CASE n = 0 -> "0"
      [] n = 1 -> "1"
      [] n = 2 -> "2"
      [] n = 3 -> "3"

\* Mutant: no case folding.
ToLower_Identity(s) == s

\* strings.ToLower on the flag types of the input domain.
ToLower(s) ==
    CASE s = "Boolean" -> "boolean"
      [] s = "String" -> "string"
      [] s = "Number" -> "number"
      [] s = "NUMBER" -> "number"
      [] s = "Json" -> "json"
      [] OTHER -> s

\* Mutant: the default variants of a Boolean flag, whatever the type.
DefaultVariants_AlwaysBoolean(flagType) == <<"true", "false">>

\* create-flag's default variants, by flag type.
DefaultVariants(flagType) ==
    CASE ToLower(flagType) = "boolean" -> <<"true", "false">>
      [] ToLower(flagType) = "string" -> <<"option1", "option2">>
      [] ToLower(flagType) = "number" -> <<"0", "1">>
      [] OTHER -> <<"true", "false">>

\* yaml.Unmarshal of the --variants text into []interface{}: a sequence
\* document decodes to its elements; a null document decodes without error
\* and leaves the slice nil; a scalar or a mapping document is an error.
YamlUnmarshalList(s) ==
    CASE s = "[\"a\",\"b\",\"c\"]" -> [ok |-> TRUE, val |-> <<JStr("a"), JStr("b"), JStr("c")>>]
      [] s = "[a, b]" -> [ok |-> TRUE, val |-> <<JStr("a"), JStr("b")>>]
      [] s = "[1, true]" -> [ok |-> TRUE, val |-> <<JNum("1"), JBool(TRUE)>>]
      [] s = "null" -> [ok |-> TRUE, val |-> <<>>]
      [] OTHER -> [ok |-> FALSE, val |-> <<>>]

\* fmt.Sprintf("%v", v) of a decoded YAML scalar.
SprintV(v) == v.v

\* strings.Split(s, ",") on the texts of the input domain.
StringsSplit(s) ==
    CASE s = "a, b , c" -> <<"a", " b ", " c">>
      [] s = "a, b" -> <<"a", " b">>
      [] OTHER -> <<s>>

\* strings.TrimSpace on the pieces StringsSplit yields.
TrimSpace(s) ==
    CASE s = " b " -> "b"
      [] s = " b" -> "b"
      [] s = " c" -> "c"
      [] OTHER -> s

\* create-flag's --variants parse: the YAML sequence when the text decodes,
\* else the comma-separated pieces, trimmed.
ParseVariants(variantsStr) ==
    LET y == YamlUnmarshalList(variantsStr)
        pieces == StringsSplit(variantsStr)
    IN  IF y.ok THEN [i \in 1..Len(y.val) |-> SprintV(y.val[i])]
        ELSE [i \in 1..Len(pieces) |-> TrimSpace(pieces[i])]

Variants(a) ==
    IF a.variantsStr # "" THEN ParseVariants(a.variantsStr)
    ELSE DefaultVariants(FlagValue(a, "flagType"))

(***************************************************************************)
(* How a handler ends or goes on.                                           *)
(***************************************************************************)
\* Mutant: the process exits zero although RunE returned an error.
Fail_ExitsZero(e) ==
    /\ pc' = "done"
    /\ err' = e
    /\ exitCode' = 0
    /\ UNCHANGED <<outputs, stdout>>

\* RunE returns an error: Execute returns it and main exits 1.
Fail(e) ==
    /\ pc' = "done"
    /\ err' = e
    /\ exitCode' = 1
    /\ UNCHANGED <<outputs, stdout>>

Succeed(outs, lines) ==
    /\ pc' = "done"
    /\ err' = NoErr
    /\ exitCode' = 0
    /\ outputs' = outs
    /\ stdout' = stdout \cup lines

Proceed(next) ==
    /\ pc' = next
    /\ UNCHANGED <<err, exitCode, outputs, stdout>>

\* Mutant: a request that was not answered with a 2xx status is sent again.
Exchange_Retries(req, resp) ==
    /\ reqs' = IF resp.kind = "http" /\ Is2xx(resp.status)
               THEN Append(reqs, req) ELSE reqs \o <<req, req>>
    /\ resps' = IF resp.kind = "http" /\ Is2xx(resp.status)
                THEN Append(resps, resp) ELSE resps \o <<resp, resp>>
    /\ server' = ServerApply(server, req, resp)

\* One blocking round trip of Client.makeRequest.
Exchange(req, resp) ==
    /\ reqs' = Append(reqs, req)
    /\ resps' = Append(resps, resp)
    /\ server' = ServerApply(server, req, resp)

\* The part of a handler that runs before its first client call: cobra's
\* required-flag check, RunE's input checks, create-flag's dry-run return,
\* and NewClient.
Start(c, a, inputErr, dryLines, next) ==
    LET missing == {f \in RequiredFlags(c) : a[f] = Unset}
        nc == NewClient(FlagValue(a, "token"), FlagValue(a, "orgID"))
    IN  /\ pc = "idle"
        /\ cmd' = c
        /\ args' = a
        /\ serverAtStart' = server
        /\ UNCHANGED <<server, lastGet, application, flag, environmentID, configChanges, reqs, resps>>
        /\ IF missing # {}
           THEN Fail(RequiredFlagsErr(missing)) /\ client' = NoClient
           ELSE IF inputErr # ""
           THEN Fail(ValidationErr(inputErr)) /\ client' = NoClient
           ELSE IF dryLines # {}
           THEN Succeed(outputs, dryLines) /\ client' = NoClient
           ELSE IF nc.err # ""
           THEN Fail(NotFoundErr("failed to create CloudBees client", "", nc.err)) /\ client' = NoClient
           ELSE Proceed(next) /\ client' = nc.client

(***************************************************************************)
(* The inputs the invocations draw from.                                    *)
(***************************************************************************)
BaseArgs ==
    [token |-> "tok", orgID |-> "org-1", applicationName |-> "app1", flagName |-> "f1",
     environmentName |-> "dev", enabled |-> "", defaultValue |-> "", variantsEnabled |-> "",
     stickinessProperty |-> "", configYAML |-> "", dryRun |-> FALSE, confirm |-> FALSE,
     flagType |-> Unset, variantsStr |-> "", outDir |-> "/out"]

\* The placeholder values of TestDryRunFunctionality: no server knows them.
PlaceholderArgs ==
    [BaseArgs EXCEPT !.token = "test-token", !.orgID = "test-org", !.applicationName = "test-app",
                     !.flagName = "test-flag", !.environmentName = "test-env"]

CredentialArgs ==
    {BaseArgs, PlaceholderArgs}
      \cup {[BaseArgs EXCEPT !.token = t] : t \in {"", Unset}}
      \cup {[BaseArgs EXCEPT !.orgID = o] : o \in {"", Unset}}

DocA == "enabled: true\ndefaultValue: x"

\* A --config document whose "enabled" is a text and not a boolean.
DocEnabledText == "enabled: \"on\""

\* A --config document whose keys no override names.
DocUnknownKeys == "conditions: []\nrollout: 10"

\* $CLOUDBEES_OUTPUTS: not set, a directory that exists, one that does not.
OutDirs == {"", "/out", "/nodir"}

ListEnvironmentsInputs ==
    CredentialArgs
      \cup {[BaseArgs EXCEPT !.outDir = o, !.orgID = g] : o \in OutDirs, g \in {OrgID, EmptyOrgID}}

ListFlagsInputs ==
    CredentialArgs
      \cup {[BaseArgs EXCEPT !.applicationName = n, !.outDir = o] :
              n \in {"app1", "APP1", "other", "nope", "", Unset}, o \in OutDirs}

GetFlagConfigInputs ==
    CredentialArgs
      \cup {[BaseArgs EXCEPT !.applicationName = n, !.flagName = f, !.environmentName = e] :
              n \in {"app1", "nope"}, f \in {"f1", "nope"}, e \in {"dev", "DEV", "prod", "nope"}}
      \cup {[BaseArgs EXCEPT !.flagName = f] : f \in {"", Unset}}
      \cup {[BaseArgs EXCEPT !.environmentName = e] : e \in {"", Unset}}
      \cup {[BaseArgs EXCEPT !.applicationName = n] : n \in {"", Unset}}
      \cup {[BaseArgs EXCEPT !.outDir = o] : o \in OutDirs}

SetFlagConfigInputs ==
    {[x EXCEPT !.dryRun = d, !.enabled = en] :
        x \in CredentialArgs, d \in BOOLEAN, en \in {"", "true"}}
      \cup {[BaseArgs EXCEPT !.applicationName = n, !.flagName = f, !.environmentName = e,
                             !.dryRun = d, !.enabled = en] :
              n \in {"app1", "nope"}, f \in {"f1", "nope"}, e \in {"dev", "nope"},
              d \in BOOLEAN, en \in {"", "true"}}
      \cup {[BaseArgs EXCEPT !.dryRun = d, !.enabled = en, !.defaultValue = dv,
                             !.variantsEnabled = ve, !.configYAML = y] :
              d \in BOOLEAN, en \in {"", "false", "maybe"}, dv \in {"", "42"},
              ve \in {"", "x"}, y \in {"", DocA, "{}", "- a"}}
      \cup {[BaseArgs EXCEPT !.flagName = f, !.dryRun = d] : f \in {"", Unset}, d \in BOOLEAN}
      \cup {[BaseArgs EXCEPT !.environmentName = e, !.dryRun = d] : e \in {"", Unset}, d \in BOOLEAN}
      \cup {[BaseArgs EXCEPT !.applicationName = n, !.enabled = "true"] : n \in {"", Unset}}
      \cup {[BaseArgs EXCEPT !.outDir = o, !.enabled = "true"] : o \in OutDirs}
      \cup {[BaseArgs EXCEPT !.configYAML = DocUnknownKeys, !.stickinessProperty = sp] :
              sp \in {"", "email"}}
      \cup {[BaseArgs EXCEPT !.configYAML = DocEnabledText, !.dryRun = d] : d \in BOOLEAN}
      \cup {[BaseArgs EXCEPT !.defaultValue = "null", !.dryRun = d] : d \in BOOLEAN}

CreateFlagInputs ==
    {[x EXCEPT !.flagName = f, !.dryRun = d] :
        x \in CredentialArgs, f \in {"f2", "f1"}, d \in BOOLEAN}
      \cup {[BaseArgs EXCEPT !.applicationName = n, !.flagName = f, !.dryRun = d, !.flagType = t,
                             !.variantsStr = v] :
              n \in {"app1", "nope"}, f \in {"f2", "", Unset}, d \in BOOLEAN,
              t \in {Unset, "string", ""}, v \in {"", "a, b"}}
      \cup {[BaseArgs EXCEPT !.flagName = "f2", !.dryRun = d, !.flagType = t] :
              d \in BOOLEAN, t \in {"Boolean", "String", "Number", "NUMBER", "Json"}}
      \cup {[BaseArgs EXCEPT !.flagName = "f2", !.dryRun = d, !.variantsStr = v] :
              d \in BOOLEAN,
              v \in {"[\"a\",\"b\",\"c\"]", "[a, b]", "[1, true]", "a, b , c", "solo", "null"}}
      \cup {[BaseArgs EXCEPT !.applicationName = n, !.flagName = "f2"] : n \in {"", Unset}}
      \cup {[BaseArgs EXCEPT !.outDir = o, !.flagName = "f2"] : o \in OutDirs}

DeleteFlagInputs ==
    {[x EXCEPT !.dryRun = d, !.confirm = c] : x \in CredentialArgs, d \in BOOLEAN, c \in BOOLEAN}
      \cup {[BaseArgs EXCEPT !.applicationName = n, !.flagName = f, !.dryRun = d, !.confirm = c] :
              n \in {"app1", "nope"}, f \in {"f1", "f2", "nope", "", Unset},
              d \in BOOLEAN, c \in BOOLEAN}
      \cup {[BaseArgs EXCEPT !.applicationName = n, !.confirm = TRUE] : n \in {"", Unset}}
      \cup {[BaseArgs EXCEPT !.outDir = o, !.confirm = TRUE] : o \in OutDirs}

Overrides(a) ==
    [enabled |-> a.enabled, defaultValue |-> a.defaultValue,
     variantsEnabled |-> a.variantsEnabled, stickinessProperty |-> a.stickinessProperty]

\* Mutant: delete-flag without its confirmation check.
DeleteFlagInputErr_NoConfirm(a) ==
    IF FlagValue(a, "flagName") = "" THEN "flag-name is required" ELSE ""

\* delete-flag's input checks: the flag name, then the confirmation.
DeleteFlagInputErr(a) ==
    IF FlagValue(a, "flagName") = "" THEN "flag-name is required"
    ELSE IF ~a.confirm /\ ~a.dryRun THEN "use --confirm to proceed or --dry-run to preview"
    ELSE ""

\* Mutant: the dry-run return placed ahead of the merge's validation.
SetNextStep_DryRunFirst(a, mergedErr) ==
    IF a.dryRun THEN "dry-run"
    ELSE IF mergedErr # "" THEN "fail"
    ELSE "SetFlagConfiguration"

\* What set-flag-config does once the environment is resolved: it fails on a
\* merge error, returns on a dry-run, and otherwise sends the PUT.
SetNextStep(a, mergedErr) ==
    IF mergedErr # "" THEN "fail"
    ELSE IF a.dryRun THEN "dry-run"
    ELSE "SetFlagConfiguration"

\* Mutant: delete-flag without its dry-run return.
DeleteNextStep_NoDryRun(a) == "DeleteFlag"

\* What delete-flag does once the flag is resolved.
DeleteNextStep(a) == IF a.dryRun THEN "dry-run" ELSE "DeleteFlag"

(***************************************************************************)
(* The command handlers up to their first client call.                      *)
(***************************************************************************)
ListEnvironmentsCmd ==
    \E a \in ListEnvironmentsInputs :
        Start("list-environments", a, "", {}, "ListEnvironments")

ListFlagsCmd ==
    \E a \in ListFlagsInputs :
        Start("list-flags", a, "", {}, "GetApplicationByName")

CreateFlagCmd ==
    \E a \in CreateFlagInputs :
        Start("create-flag", a,
              IF FlagValue(a, "flagName") = "" THEN "flag-name is required"
              ELSE IF FlagValue(a, "flagType") = "" THEN "flag-type is required"
              ELSE "",
              IF a.dryRun THEN {"DRY RUN: Would create flag"} ELSE {},
              "GetApplicationByName")

GetFlagConfigCmd ==
    \E a \in GetFlagConfigInputs :
        Start("get-flag-config", a,
              IF FlagValue(a, "flagName") = "" THEN "flag-name is required"
              ELSE IF FlagValue(a, "environmentName") = "" THEN "environment-name is required"
              ELSE "",
              {}, "GetApplicationByName")

SetFlagConfigCmd ==
    \E a \in SetFlagConfigInputs :
        Start("set-flag-config", a,
              IF FlagValue(a, "flagName") = "" THEN "flag-name is required"
              ELSE IF FlagValue(a, "environmentName") = "" THEN "environment-name is required"
              ELSE "",
              {}, "GetApplicationByName")

DeleteFlagCmd ==
    \E a \in DeleteFlagInputs :
        Start("delete-flag", a, DeleteFlagInputErr(a), {}, "GetApplicationByName")

(***************************************************************************)
(* The client calls, each with the part of the handler that follows it.     *)
(***************************************************************************)
\* Client.GetApplicationByName (ListApplications and the name scan), then
\* the handler's next call.
GetApplicationByName ==
    /\ pc = "GetApplicationByName"
    /\ LET name == FlagValue(args, "applicationName")
           req == ListApplicationsRequest(client)
       IN  \E resp \in ServerAnswers(server, req) :
             LET failed == CallErr("ListApplications", resp) # ""
                 idx == IF failed THEN 0 ELSE FirstIndex(resp.data, name, 1)
             IN  /\ Exchange(req, resp)
                 /\ application' = IF idx = 0 THEN application ELSE resp.data[idx]
                 /\ IF failed
                    THEN Fail(Wrap("failed to get application", name, "ListApplications", resp))
                    ELSE IF idx = 0
                    THEN Fail(NotFoundErr("failed to get application", name, "application not found"))
                    ELSE Proceed(CASE cmd = "list-flags" -> "ListFlags"
                                   [] cmd = "create-flag" -> "CreateFlag"
                                   [] OTHER -> "GetFlagByName")
    /\ UNCHANGED <<serverAtStart, lastGet, cmd, args, client, flag, environmentID, configChanges>>

\* Client.GetFlagByName, then the handler's next call; delete-flag's dry-run
\* returns here.
GetFlagByName ==
    /\ pc = "GetFlagByName"
    /\ LET name == FlagValue(args, "flagName")
           req == GetFlagByNameRequest(client, application.id, name)
       IN  \E resp \in ServerAnswers(server, req) :
             LET failed == CallErr("GetFlagByName", resp) # ""
             IN  /\ Exchange(req, resp)
                 /\ flag' = IF failed THEN flag ELSE resp.data
                 /\ IF failed
                    THEN Fail(Wrap(IF cmd = "delete-flag" THEN "failed to find flag"
                                   ELSE "failed to get flag", name, "GetFlagByName", resp))
                    ELSE IF cmd # "delete-flag" THEN Proceed("ListEnvironments")
                    ELSE IF DeleteNextStep(args) = "dry-run"
                    THEN Succeed(outputs, {"DRY RUN: Would delete flag"})
                    ELSE Proceed("DeleteFlag")
    /\ UNCHANGED <<serverAtStart, lastGet, cmd, args, client, application, environmentID, configChanges>>

\* Client.ListEnvironments, then: list-environments writes its outputs;
\* get-flag-config and set-flag-config look the environment up by name, and
\* set-flag-config builds and checks its change set and returns on a dry-run.
ListEnvironments ==
    /\ pc = "ListEnvironments"
    /\ LET name == FlagValue(args, "environmentName")
           req == ListEnvironmentsRequest(client)
       IN  \E resp \in ServerAnswers(server, req) :
             LET failed == CallErr("ListEnvironments", resp) # ""
                 envID == IF failed \/ cmd = "list-environments" THEN ""
                          ELSE FindEnvironmentID(resp.data, name)
                 merged == BuildConfigChanges(args.configYAML, Overrides(args))
                 merges == ~failed /\ cmd = "set-flag-config" /\ envID # ""
             IN  /\ Exchange(req, resp)
                 /\ environmentID' = envID
                 /\ configChanges' = IF merges THEN merged.changes ELSE configChanges
                 /\ IF failed
                    THEN Fail(Wrap("failed to list environments", "", "ListEnvironments", resp))
                    ELSE IF cmd = "list-environments"
                    THEN IF Len(resp.data) = 0
                         THEN Succeed(WriteOutput(WriteOutput(outputs, args, "environment-count", "0"),
                                                  args, "environments", EmptyArrayText),
                                      {"No environments found"})
                         ELSE Succeed(WriteOutput(WriteOutput(outputs, args, "environment-count",
                                                              Itoa(Len(resp.data))),
                                                  args, "environments", JsonMarshal(resp.data)),
                                      {})
                    ELSE IF envID = ""
                    THEN Fail(NotFoundErr("environment not found", name, ""))
                    ELSE IF cmd = "get-flag-config" THEN Proceed("GetFlagConfiguration")
                    ELSE IF SetNextStep(args, merged.err) = "fail" THEN Fail(ValidationErr(merged.err))
                    ELSE IF SetNextStep(args, merged.err) = "dry-run"
                    THEN Succeed(outputs, {"DRY RUN: Would update flag"})
                    ELSE Proceed("SetFlagConfiguration")
    /\ UNCHANGED <<serverAtStart, lastGet, cmd, args, client, application, flag>>

\* Mutant: the decoded configuration is never enabled.
DecodeFlagConfiguration_NeverEnabled(doc) ==
    [Enabled |-> FALSE,
     DefaultValue |-> IF "defaultValue" \in DOMAIN doc THEN doc["defaultValue"] ELSE JNull]

\* json decoding of a configuration document into FlagConfiguration.
DecodeFlagConfiguration(doc) ==
    [Enabled |-> "enabled" \in DOMAIN doc /\ doc["enabled"] = JBool(TRUE),
     DefaultValue |-> IF "defaultValue" \in DOMAIN doc THEN doc["defaultValue"] ELSE JNull]

\* Client.GetFlagConfiguration, then get-flag-config's outputs.
GetFlagConfiguration ==
    /\ pc = "GetFlagConfiguration"
    /\ LET req == GetFlagConfigurationRequest(client, application.id, flag.id, environmentID)
       IN  \E resp \in ServerAnswers(server, req) :
             LET failed == CallErr("GetFlagConfiguration", resp) # ""
                 config == DecodeFlagConfiguration(IF failed THEN EmptyMap ELSE resp.data)
                 o1 == WriteOutput(outputs, args, "flag-config", JsonMarshal(config))
                 o2 == WriteOutput(o1, args, "flag-id", flag.id)
                 o3 == WriteOutput(o2, args, "environment-id", environmentID)
                 o4 == WriteOutput(o3, args, "enabled", IF config.Enabled THEN "true" ELSE "false")
                 o5 == WriteOutput(o4, args, "default-value",
                                   IF config.DefaultValue # JNull THEN JsonMarshal(config.DefaultValue)
                                   ELSE NullText)
             IN  /\ Exchange(req, resp)
                 /\ IF failed
                    THEN Fail(Wrap("failed to get flag configuration", "", "GetFlagConfiguration", resp))
                    ELSE Succeed(o5, {})
    /\ UNCHANGED <<serverAtStart, lastGet, cmd, args, client, application, flag, environmentID,
                   configChanges>>

\* Mutant: the "enabled" output is written whatever the mapping holds.
WriteEnabledOutput_Always(outs, a, changes) ==
    WriteOutput(outs, a, "enabled",
                IF "enabled" \in DOMAIN changes /\ changes["enabled"] = JBool(TRUE)
                THEN "true" ELSE "false")

\* set-flag-config's "enabled" output: written when the merged mapping holds
\* a boolean under "enabled".
WriteEnabledOutput(outs, a, changes) ==
    IF "enabled" \in DOMAIN changes /\ changes["enabled"].t = "bool"
    THEN WriteOutput(outs, a, "enabled", changes["enabled"].v)
    ELSE outs

\* Client.SetFlagConfiguration (the PUT of the merged mapping), then
\* set-flag-config's outputs.
SetFlagConfiguration ==
    /\ pc = "SetFlagConfiguration"
    /\ LET req == SetFlagConfigurationRequest(client, application.id, flag.id, environmentID,
                                              configChanges)
       IN  \E resp \in ServerAnswers(server, req) :
             LET failed == CallErr("SetFlagConfiguration", resp) # ""
                 o1 == WriteOutput(outputs, args, "flag-id", flag.id)
                 o2 == WriteOutput(o1, args, "flag-name", flag.name)
                 o3 == WriteOutput(o2, args, "application-id", application.id)
                 o4 == WriteOutput(o3, args, "application-name", application.name)
                 o5 == WriteOutput(o4, args, "environment-id", environmentID)
                 o6 == WriteOutput(o5, args, "environment-name", FlagValue(args, "environmentName"))
                 o7 == WriteOutput(o6, args, "configuration", JsonMarshal(configChanges))
                 o8 == WriteEnabledOutput(o7, args, configChanges)
                 o9 == WriteOutput(o8, args, "success", "true")
             IN  /\ Exchange(req, resp)
                 /\ IF failed
                    THEN Fail(Wrap("failed to set flag configuration", "", "SetFlagConfiguration", resp))
                    ELSE Succeed(o9, {})
    /\ UNCHANGED <<serverAtStart, lastGet, cmd, args, client, application, flag, environmentID,
                   configChanges>>

\* Client.ListFlags, then list-flags' outputs.
ListFlags ==
    /\ pc = "ListFlags"
    /\ LET req == ListFlagsRequest(client, application.id)
       IN  \E resp \in ServerAnswers(server, req) :
             LET failed == CallErr("ListFlags", resp) # ""
                 flags == IF failed THEN <<>> ELSE resp.data
             IN  /\ Exchange(req, resp)
                 /\ IF failed
                    THEN Fail(Wrap("failed to list flags", "", "ListFlags", resp))
                    ELSE IF Len(flags) = 0
                    THEN Succeed(WriteOutput(WriteOutput(outputs, args, "flag-count", "0"),
                                             args, "flags", EmptyArrayText),
                                 {"No flags found"})
                    ELSE Succeed(WriteOutput(WriteOutput(outputs, args, "flag-count", Itoa(Len(flags))),
                                             args, "flags", JsonMarshal(flags)),
                                 {})
    /\ UNCHANGED <<serverAtStart, lastGet, cmd, args, client, application, flag, environmentID,
                   configChanges>>

\* Client.CreateFlag (the POST), then create-flag's outputs.
CreateFlag ==
    /\ pc = "CreateFlag"
    /\ LET req == CreateFlagRequest(client, application.id, FlagValue(args, "flagName"),
                                    FlagValue(args, "flagType"), "", Variants(args), FALSE)
       IN  \E resp \in ServerAnswers(server, req) :
             LET failed == CallErr("CreateFlag", resp) # ""
                 created == IF failed THEN [id |-> "", name |-> "", flagType |-> ""] ELSE resp.data
                 o1 == WriteOutput(outputs, args, "flag-id", created.id)
                 o2 == WriteOutput(o1, args, "flag-name", created.name)
                 o3 == WriteOutput(o2, args, "flag-type", created.flagType)
                 o4 == WriteOutput(o3, args, "flag", JsonMarshal(created))
                 o5 == WriteOutput(o4, args, "success", "true")
             IN  /\ Exchange(req, resp)
                 /\ IF failed
                    THEN Fail(Wrap("failed to create flag", "", "CreateFlag", resp))
                    ELSE Succeed(o5, {})
    /\ UNCHANGED <<serverAtStart, lastGet, cmd, args, client, application, flag, environmentID,
                   configChanges>>

\* Client.DeleteFlag (the DELETE), then delete-flag's outputs.
DeleteFlag ==
    /\ pc = "DeleteFlag"
    /\ LET req == DeleteFlagRequest(client, application.id, flag.id)
       IN  \E resp \in ServerAnswers(server, req) :
             LET failed == CallErr("DeleteFlag", resp) # ""
                 o1 == WriteOutput(outputs, args, "flag-id", flag.id)
                 o2 == WriteOutput(o1, args, "flag-name", flag.name)
                 o3 == WriteOutput(o2, args, "deleted", "true")
                 o4 == WriteOutput(o3, args, "success", "true")
             IN  /\ Exchange(req, resp)
                 /\ IF failed
                    THEN Fail(Wrap("failed to delete flag", "", "DeleteFlag", resp))
                    ELSE Succeed(o4, {"Flag deleted successfully"})
    /\ UNCHANGED <<serverAtStart, lastGet, cmd, args, client, application, flag, environmentID,
                   configChanges>>

\* main: the process ends with the exit code; the next invocation is a new
\* process that shares nothing with it but the server.
Exit ==
    /\ pc = "done"
    /\ lastGet' = IF cmd = "get-flag-config" /\ exitCode = 0
                  THEN [done |-> TRUE,
                        names |-> <<args.applicationName, args.flagName, args.environmentName>>,
                        unchanged |-> (server = serverAtStart)]
                  ELSE NoGet
    /\ pc' = "idle"
    /\ cmd' = "none"
    /\ args' = NoArgs
    /\ client' = NoClient
    /\ application' = NoEntity
    /\ flag' = NoEntity
    /\ environmentID' = ""
    /\ configChanges' = EmptyMap
    /\ reqs' = <<>>
    /\ resps' = <<>>
    /\ err' = NoErr
    /\ exitCode' = -1
    /\ outputs' = NoOutputs
    /\ stdout' = {}
    /\ serverAtStart' = server
    /\ UNCHANGED server

Init ==
    /\ server = ServerInit
    /\ serverAtStart = ServerInit
    /\ lastGet = NoGet
    /\ pc = "idle"
    /\ cmd = "none"
    /\ args = NoArgs
    /\ client = NoClient
    /\ application = NoEntity
    /\ flag = NoEntity
    /\ environmentID = ""
    /\ configChanges = EmptyMap
    /\ reqs = <<>>
    /\ resps = <<>>
    /\ err = NoErr
    /\ exitCode = -1
    /\ outputs = NoOutputs
    /\ stdout = {}

Next ==
    \/ ListEnvironmentsCmd
    \/ ListFlagsCmd
    \/ CreateFlagCmd
    \/ GetFlagConfigCmd
    \/ SetFlagConfigCmd
    \/ DeleteFlagCmd
    \/ GetApplicationByName
    \/ GetFlagByName
    \/ ListEnvironments
    \/ GetFlagConfiguration
    \/ SetFlagConfiguration
    \/ ListFlags
    \/ CreateFlag
    \/ DeleteFlag
    \/ Exit

Spec == Init /\ [][Next]_vars

(***************************************************************************)
(* The configuration merge on its own: every document of the input domain   *)
(* with every combination of override texts.                                *)
(***************************************************************************)
YamlTexts ==
    {"", DocA, "enabled: false", "defaultValue: 7\nvariantsEnabled: true\nstickinessProperty: email",
     "conditions: []\nrollout: 10", "{}", "null", "- a"}

MergeInputs ==
    {[NoArgs EXCEPT !.configYAML = y, !.enabled = en, !.defaultValue = dv,
                    !.variantsEnabled = ve, !.stickinessProperty = st] :
        y \in YamlTexts, en \in {"", "true", "false", "0", "maybe"},
        dv \in {"", "42", "hello", "true", "null", "\"x\"", "{\"a\":1}", "[1,2]"},
        ve \in {"", "true", "F", "x"}, st \in {"", "userId"}}

InitMerge ==
    /\ server = ServerInit
    /\ serverAtStart = ServerInit
    /\ lastGet = NoGet
    /\ pc = "merge"
    /\ cmd = "none"
    /\ args \in MergeInputs
    /\ client = NoClient
    /\ application = NoEntity
    /\ flag = NoEntity
    /\ environmentID = ""
    /\ configChanges = EmptyMap
    /\ reqs = <<>>
    /\ resps = <<>>
    /\ err = NoErr
    /\ exitCode = -1
    /\ outputs = NoOutputs
    /\ stdout = {}

MergeStep ==
    /\ pc = "merge"
    /\ pc' = "merged"
    /\ configChanges' = BuildConfigChanges(args.configYAML, Overrides(args)).changes
    /\ err' = IF BuildConfigChanges(args.configYAML, Overrides(args)).err = "" THEN NoErr
              ELSE ValidationErr(BuildConfigChanges(args.configYAML, Overrides(args)).err)
    /\ UNCHANGED <<server, serverAtStart, lastGet, cmd, args, client, application, flag,
                   environmentID, reqs, resps, exitCode, outputs, stdout>>

NextMerge == MergeStep

SpecMerge == InitMerge /\ [][NextMerge]_vars

(***************************************************************************)
(* The client on its own: a Client built by NewClientWithOptions with the   *)
(* legacy toggle on or off, and any sequence of calls of its methods with   *)
(* any application ID.  reqs and resps hold the last call's request and     *)
(* answer; application, flag, environmentID and configChanges hold the      *)
(* arguments that call was given.                                           *)
(***************************************************************************)
PassedApplicationIDs == {"app-1", "app-2"}

PassedConfigs == {("enabled" :> JBool(TRUE))}

InitClient ==
    /\ server = ServerInit
    /\ serverAtStart = ServerInit
    /\ lastGet = NoGet
    /\ pc = "client"
    /\ cmd = "none"
    /\ args = NoArgs
    /\ client \in {NewClientWithOptions(ValidToken, OrgID, t).client : t \in BOOLEAN}
    /\ application = NoEntity
    /\ flag = NoEntity
    /\ environmentID = ""
    /\ configChanges = EmptyMap
    /\ reqs = <<>>
    /\ resps = <<>>
    /\ err = NoErr
    /\ exitCode = -1
    /\ outputs = NoOutputs
    /\ stdout = {}

\* One call of a client method: the request, the answer, and the error the
\* method returns.
Call(req, applicationID, flagRef, envID, config) ==
    /\ pc = "client"
    /\ \E resp \in ServerAnswers(server, req) :
          /\ reqs' = <<req>>
          /\ resps' = <<resp>>
          /\ server' = ServerApply(server, req, resp)
          /\ err' = IF CallErr(req.op, resp) = "" THEN NoErr ELSE Wrap("", "", req.op, resp)
    /\ application' = [id |-> applicationID, name |-> ""]
    /\ flag' = [id |-> flagRef, name |-> ""]
    /\ environmentID' = envID
    /\ configChanges' = config
    /\ UNCHANGED <<serverAtStart, lastGet, cmd, args, pc, client, exitCode, outputs, stdout>>

CallListEnvironments == Call(ListEnvironmentsRequest(client), "", "", "", EmptyMap)

CallListApplications == Call(ListApplicationsRequest(client), "", "", "", EmptyMap)

CallGetFlagByName ==
    \E a \in PassedApplicationIDs, n \in FlagNames :
        Call(GetFlagByNameRequest(client, a, n), a, n, "", EmptyMap)

CallGetFlagConfiguration ==
    \E a \in PassedApplicationIDs, f \in FlagIds, e \in EnvIds :
        Call(GetFlagConfigurationRequest(client, a, f, e), a, f, e, EmptyMap)

CallUpdateFlagConfiguration ==
    \E a \in PassedApplicationIDs, f \in FlagIds, e \in {"env-1"}, c \in PassedConfigs :
        Call(UpdateFlagConfigurationRequest(client, a, f, e, c), a, f, e, c)

CallSetFlagConfiguration ==
    \E a \in PassedApplicationIDs, f \in FlagIds, e \in {"env-1"}, c \in PassedConfigs :
        Call(SetFlagConfigurationRequest(client, a, f, e, c), a, f, e, c)

CallListFlags ==
    \E a \in PassedApplicationIDs : Call(ListFlagsRequest(client, a), a, "", "", EmptyMap)

CallCreateFlag ==
    \E a \in PassedApplicationIDs, n \in FlagNames :
        Call(CreateFlagRequest(client, a, n, "Boolean", "", <<"true", "false">>, FALSE),
             a, n, "", EmptyMap)

CallDeleteFlag ==
    \E a \in PassedApplicationIDs, f \in FlagIds :
        Call(DeleteFlagRequest(client, a, f), a, f, "", EmptyMap)

NextClient ==
    \/ CallListEnvironments
    \/ CallListApplications
    \/ CallGetFlagByName
    \/ CallGetFlagConfiguration
    \/ CallUpdateFlagConfiguration
    \/ CallSetFlagConfiguration
    \/ CallListFlags
    \/ CallCreateFlag
    \/ CallDeleteFlag

SpecClient == InitClient /\ [][NextClient]_vars

(***************************************************************************)
(* Properties.  Vocabulary first.                                           *)
(***************************************************************************)
\* The number of mutating requests (PUT, POST, DELETE) this invocation sent.
MutatingSent == Cardinality({i \in 1..Len(reqs) : reqs[i].method \in MutatingMethods})

\* The operations this invocation called, in order.
OpsSent == [i \in 1..Len(reqs) |-> reqs[i].op]

\* The invocation passed cobra's checks and RunE's input checks, and the
\* client could be built.
InputsAccepted ==
    /\ cmd \in Commands
    /\ \A f \in RequiredFlags(cmd) : args[f] \notin {Unset, ""}

\* No --config document key and no override: the merged change set is empty.
EmptyChangeSet(a) ==
    /\ a.enabled = "" /\ a.defaultValue = "" /\ a.variantsEnabled = "" /\ a.stickinessProperty = ""
    /\ a.configYAML \in {"", "{}", "null"}

AppExists(name) == \E i \in 1..Len(ServerApps) : ServerApps[i].name = name

EnvExists(name) == \E i \in 1..Len(ServerEnvs) : ServerEnvs[i].name = name

\* The i-th call of the invocation was answered, and its method took the
\* answer as a success.
Accepted(i) == CallErr(reqs[i].op, resps[i]) = ""

DryRunCommands == {"create-flag", "set-flag-config", "delete-flag"}

\* The names on the command line are names the server knows.
NamesExist(a) ==
    /\ AppExists(FlagValue(a, "applicationName"))
    /\ \E f \in serverAtStart.flags : f.name = a.flagName
    /\ EnvExists(a.environmentName)

\* C1: a set-flag-config whose merged change set is empty has sent no
\* request at all, not even a resolution request, and (the names being known
\* and no call having failed) it ends with the "no configuration changes
\* specified" error.
C1_EmptyChangeSetRejectedBeforeNetwork ==
    (/\ cmd = "set-flag-config" /\ InputsAccepted /\ EmptyChangeSet(args)
     /\ NamesExist(args)
     /\ \A i \in 1..Len(reqs) : Accepted(i))
        => /\ reqs = <<>>
           /\ pc = "done" => err = ValidationErr("no configuration changes specified")

\* C2: set-flag-config with an empty change set, run right after a successful
\* get-flag-config of the same (application, flag, environment), sends no
\* mutating request and exits non-zero, with the validation error once its
\* own resolution has succeeded; the server is as it was before the get.
C2_GetThenEmptySetLeavesServerAlone ==
    (/\ cmd = "set-flag-config"
     /\ lastGet.done
     /\ lastGet.names = <<args.applicationName, args.flagName, args.environmentName>>
     /\ EmptyChangeSet(args))
        => /\ MutatingSent = 0
           /\ lastGet.unchanged /\ server = serverAtStart
           /\ pc = "done" => exitCode = 1
           /\ (pc = "done" /\ environmentID # "")
                 => err = ValidationErr("no configuration changes specified")

C2_Witness ==
    /\ cmd = "set-flag-config"
    /\ lastGet.done
    /\ lastGet.names = <<args.applicationName, args.flagName, args.environmentName>>
    /\ EmptyChangeSet(args)
    /\ pc = "done"
    /\ Len(reqs) = 3
    /\ err = ValidationErr("no configuration changes specified")

\* C3: with --dry-run, create-flag, set-flag-config and delete-flag send no
\* POST, PUT or DELETE, whatever the inputs and the server's answers, and the
\* server's state stays what it was when the invocation began.
C3_DryRunNeverMutates ==
    (cmd \in DryRunCommands /\ args.dryRun)
        => MutatingSent = 0 /\ server = serverAtStart

C3_Witness ==
    /\ cmd = "delete-flag" /\ args.dryRun /\ args.confirm
    /\ pc = "done" /\ exitCode = 0
    /\ "DRY RUN: Would delete flag" \in stdout
    /\ OpsSent = <<"ListApplications", "GetFlagByName">>

\* The calls a command makes before its mutating call.
ResolutionOps(c) ==
    CASE c = "create-flag" -> <<"ListApplications">>
      [] c = "delete-flag" -> <<"ListApplications", "GetFlagByName">>
      [] c = "set-flag-config" -> <<"ListApplications", "GetFlagByName", "ListEnvironments">>

C5_DryRunNeedsNoServer ==
    (/\ cmd \in {"create-flag", "set-flag-config"}
     /\ args.dryRun
     /\ args.token = "test-token" /\ args.orgID = "test-org" /\ args.applicationName = "test-app"
     /\ args.flagName = "test-flag"
     /\ cmd = "set-flag-config" => (args.environmentName = "test-env" /\ args.enabled = "true")
     /\ pc = "done")
        => /\ exitCode = 0
           /\ stdout \cap {"DRY RUN: Would create flag", "DRY RUN: Would update flag"} # {}

\* C6: delete-flag without --confirm and without --dry-run fails validation
\* at once: no client is built and no request of any kind is sent.
C6_DeleteNeedsConfirmBeforeNetwork ==
    (cmd = "delete-flag" /\ ~args.confirm /\ ~args.dryRun)
        => /\ pc = "done" /\ exitCode = 1
           /\ err.cause = "" /\ err.status = 0 /\ err.msg # ""
           /\ client = NoClient
           /\ reqs = <<>>
           /\ server = serverAtStart

C6_Witness ==
    /\ cmd = "delete-flag" /\ ~args.confirm /\ ~args.dryRun
    /\ args.flagName = "f1" /\ args.token = "tok"
    /\ pc = "done"
    /\ err = ValidationErr("use --confirm to proceed or --dry-run to preview")

\* C7: when the named application, flag or environment does not exist, the
\* command fails with an error naming the kind and the searched value, and
\* the failed resolution is the last call of the invocation.
C7_UnresolvedNameStopsChain ==
    /\ (/\ Len(reqs) >= 1 /\ reqs[1].op = "ListApplications" /\ Accepted(1)
        /\ ~AppExists(FlagValue(args, "applicationName")))
          => /\ pc = "done" /\ exitCode = 1 /\ Len(reqs) = 1
             /\ err = NotFoundErr("failed to get application", FlagValue(args, "applicationName"),
                                  "application not found")
    /\ (/\ Len(reqs) >= 2 /\ reqs[2].op = "GetFlagByName"
        /\ \A f \in FlagsOfApp(serverAtStart, reqs[2].app) : f.name # args.flagName)
          => /\ pc = "done" /\ exitCode = 1 /\ Len(reqs) = 2
             /\ err.msg \in {"failed to get flag", "failed to find flag"}
             /\ err.name = args.flagName
             /\ resps[2].status = 404
                   => (err.cause = "API request failed" /\ err.status = 404
                       /\ err.body = "flag not found")
    /\ (/\ Len(reqs) >= 3 /\ reqs[3].op = "ListEnvironments" /\ Accepted(3)
        /\ ~EnvExists(args.environmentName))
          => /\ pc = "done" /\ exitCode = 1 /\ Len(reqs) = 3
             /\ err = NotFoundErr("environment not found", args.environmentName, "")

C7_Witness ==
    /\ cmd = "get-flag-config" /\ pc = "done"
    /\ args.environmentName = "nope"
    /\ Len(reqs) = 3 /\ Accepted(3)
    /\ err = NotFoundErr("environment not found", "nope", "")

\* C8: whenever a call is answered with a non-2xx status, it is the last call
\* of the invocation, the command has failed, and the error carries that
\* status and that body as received.
C8_Non2xxSurfacesStatusAndBody ==
    \A i \in 1..Len(resps) :
        (resps[i].kind = "http" /\ ~Is2xx(resps[i].status))
            => /\ i = Len(resps)
               /\ pc = "done" /\ exitCode = 1
               /\ err.cause = "API request failed"
               /\ err.status = resps[i].status
               /\ err.body = resps[i].body

C8_Witness ==
    /\ cmd = "delete-flag" /\ pc = "done"
    /\ Len(resps) = 3
    /\ resps[3].status = 400 /\ err.status = 400 /\ err.body = "flag is enabled"

\* C9: a call answered with any 2xx status is taken as a success: the command
\* does not fail with an API error that carries that status.
C9_Any2xxIsSuccess ==
    \A i \in 1..Len(resps) :
        (resps[i].kind = "http" /\ Is2xx(resps[i].status))
            => ~(err.cause = "API request failed" /\ err.status = resps[i].status)

\* The keys for which an override is present.
OverrideKeys(a) ==
    (IF a.enabled # "" THEN {"enabled"} ELSE {})
      \cup (IF a.defaultValue # "" THEN {"defaultValue"} ELSE {})
      \cup (IF a.variantsEnabled # "" THEN {"variantsEnabled"} ELSE {})
      \cup (IF a.stickinessProperty # "" THEN {"stickinessProperty"} ELSE {})

\* The mapping the --config document holds.
Document(a) == IF a.configYAML = "" THEN EmptyMap ELSE YamlUnmarshal(a.configYAML).val

C12_DefaultVariantsByType ==
    \A i \in 1..Len(reqs) :
        (reqs[i].op = "CreateFlag" /\ args.variantsStr = "")
            => /\ reqs[i].method = "POST"
               /\ reqs[i].body.flagType = FlagValue(args, "flagType")
               /\ args.flagType \in {Unset, "Boolean"} => reqs[i].body.variants = <<"true", "false">>
               /\ args.flagType = "String" => reqs[i].body.variants = <<"option1", "option2">>
               /\ args.flagType = "Number" => reqs[i].body.variants = <<"0", "1">>

C12_Witness ==
    /\ cmd = "create-flag" /\ pc = "done" /\ exitCode = 0
    /\ args.variantsStr = "" /\ args.flagType = "Number"
    /\ Len(reqs) = 2 /\ reqs[2].op = "CreateFlag"
    /\ reqs[2].body.variants = <<"0", "1">>
    /\ \E f \in server.flags : f.name = "f2"

\* The --variants texts of the input domain that are a structured list, each
\* with its elements in order.
StructuredListElements ==
    ("[\"a\",\"b\",\"c\"]" :> <<"a", "b", "c">>) @@ ("[a, b]" :> <<"a", "b">>)
      @@ ("[1, true]" :> <<"1", "true">>)

\* The other --variants texts, each with its comma-separated pieces trimmed.
CommaSeparatedElements ==
    ("a, b , c" :> <<"a", "b", "c">>) @@ ("a, b" :> <<"a", "b">>) @@ ("solo" :> <<"solo">>)
      @@ ("null" :> <<"null">>)

\* C13: a create request sent for a create-flag with --variants carries one
\* variant per element, in order, when the text is a structured list, and
\* the trimmed comma-separated pieces of the text when it is not.
C13_VariantsDualParsed ==
    \A i \in 1..Len(reqs) :
        (reqs[i].op = "CreateFlag" /\ args.variantsStr # "")
            => reqs[i].body.variants =
                  IF args.variantsStr \in DOMAIN StructuredListElements
                  THEN StructuredListElements[args.variantsStr]
                  ELSE CommaSeparatedElements[args.variantsStr]

\* The calls of each command, in the order resolve application, resolve
\* flag, resolve environment, read or mutate, without the steps it skips.
CallChain(c) ==
    CASE c = "list-environments" -> <<"ListEnvironments">>
      [] c = "list-flags" -> <<"ListApplications", "ListFlags">>
      [] c = "create-flag" -> <<"ListApplications", "CreateFlag">>
      [] c = "get-flag-config" ->
            <<"ListApplications", "GetFlagByName", "ListEnvironments", "GetFlagConfiguration">>
      [] c = "set-flag-config" ->
            <<"ListApplications", "GetFlagByName", "ListEnvironments", "SetFlagConfiguration">>
      [] c = "delete-flag" -> <<"ListApplications", "GetFlagByName", "DeleteFlag">>

\* The identifier of the first element of a listing that bears the name.
FirstNamed(list, name, id) ==
    \E j \in 1..Len(list) :
        /\ list[j].name = name /\ list[j].id = id
        /\ \A k \in 1..(j - 1) : list[k].name # name

\* C14: the calls of an invocation are an initial part of the command's
\* chain, every call but the last was answered with success before the next
\* was sent, and a mutating call carries the application, flag and
\* environment identifiers that the resolutions before it returned.
C14_ResolveThenMutateInOrder ==
    cmd \in Commands =>
        /\ Len(reqs) <= Len(CallChain(cmd)) /\ Len(resps) = Len(reqs)
        /\ \A i \in 1..Len(reqs) : reqs[i].op = CallChain(cmd)[i]
        /\ \A i \in 1..(Len(reqs) - 1) : Accepted(i)
        /\ \A i \in 1..Len(reqs) :
              reqs[i].method \in MutatingMethods =>
                 /\ i = Len(CallChain(cmd))
                 /\ FirstNamed(resps[1].data, args.applicationName, reqs[i].app)
                 /\ cmd \in {"set-flag-config", "delete-flag"} =>
                       (resps[2].data.name = args.flagName /\ reqs[i].flag = resps[2].data.id)
                 /\ cmd = "set-flag-config" =>
                       FirstNamed(resps[3].data, args.environmentName, reqs[i].env)

C14_Witness ==
    /\ cmd = "set-flag-config" /\ pc = "done" /\ exitCode = 0
    /\ OpsSent = CallChain("set-flag-config")
    /\ reqs[4].method = "PUT"
    /\ reqs[4].app = "app-1" /\ reqs[4].flag = "flag-1" /\ reqs[4].env = "env-1"
    /\ server # serverAtStart

\* The inputs the documentation gives as required, by command.
ClaimedRequired(c) ==
    {"token", "orgID"}
      \cup (IF c # "list-environments" /\ c # "list-flags" THEN {"flagName"} ELSE {})
      \cup (IF c = "get-flag-config" \/ c = "set-flag-config" THEN {"environmentName"} ELSE {})

\* The required inputs that are not on the command line.
NotGiven == {f \in ClaimedRequired(cmd) : args[f] = Unset}

ApplicationCommands ==
    {"list-flags", "create-flag", "get-flag-config", "set-flag-config", "delete-flag"}

\* C16: list-flags, create-flag, get-flag-config, set-flag-config and
\* delete-flag run without an application name, or with an empty one, send
\* no request, and end with a non-zero exit on an input error.
C16_ApplicationNameRequired ==
    (cmd \in ApplicationCommands /\ FlagValue(args, "applicationName") = "")
        => /\ reqs = <<>>
           /\ pc = "done" => (exitCode = 1 /\ err.cause = "" /\ err.status = 0)

\* The lines a dry-run prints when it goes through.
DryRunLines ==
    {"DRY RUN: Would create flag", "DRY RUN: Would update flag", "DRY RUN: Would delete flag"}

\* C17: when the process has ended, its exit code is 0 or 1, and it is 0
\* exactly when the handler returned no error.  It is 1 after an input
\* error, a call that failed in transport, on its status or in decoding, a
\* name that was not found, and a change set that was refused; it is 0 only
\* when the handler went through: its last call was answered with success,
\* or its dry-run was printed.
C17_ExitCodeZeroIffNoError ==
    (cmd \in Commands /\ pc = "done") =>
        /\ exitCode \in {0, 1}
        /\ exitCode = 0 <=> err = NoErr
        /\ NotGiven # {} => exitCode = 1
        /\ (\E i \in 1..Len(reqs) : ~Accepted(i)) => exitCode = 1
        /\ (/\ Len(reqs) >= 1 /\ reqs[1].op = "ListApplications" /\ Accepted(1)
            /\ \A j \in 1..Len(resps[1].data) : resps[1].data[j].name # FlagValue(args, "applicationName"))
              => exitCode = 1
        /\ (/\ Len(reqs) >= 3 /\ reqs[3].op = "ListEnvironments" /\ Accepted(3)
            /\ \A j \in 1..Len(resps[3].data) : resps[3].data[j].name # args.environmentName)
              => exitCode = 1
        /\ (cmd = "set-flag-config" /\ (EmptyChangeSet(args) \/ args.configYAML = "- a"
                                         \/ args.enabled = "maybe" \/ args.variantsEnabled = "x"))
              => exitCode = 1
        /\ (cmd = "delete-flag" /\ ~args.confirm /\ ~args.dryRun) => exitCode = 1
        /\ exitCode = 0 =>
              \/ stdout \cap DryRunLines # {} /\ args.dryRun
              \/ OpsSent = CallChain(cmd) /\ \A i \in 1..Len(reqs) : Accepted(i)
        /\ (OpsSent = CallChain(cmd) /\ \A i \in 1..Len(reqs) : Accepted(i)) => exitCode = 0

C17_Witness ==
    /\ cmd = "list-environments" /\ pc = "done" /\ exitCode = 1
    /\ args.token = "test-token"
    /\ Len(reqs) = 1 /\ resps[1].status = 401
    /\ err.cause = "API request failed"

\* The outputs each command emits when it goes through (not in a dry-run).
OutputNames(c) ==
    CASE c = "list-environments" -> {"environment-count", "environments"}
      [] c = "list-flags" -> {"flag-count", "flags"}
      [] c = "get-flag-config" ->
            {"flag-config", "flag-id", "environment-id", "enabled", "default-value"}
      [] c = "create-flag" -> {"flag-id", "flag-name", "flag-type", "flag", "success"}
      [] c = "set-flag-config" ->
            {"flag-id", "flag-name", "application-id", "application-name", "environment-id",
             "environment-name", "configuration", "success"}
      [] c = "delete-flag" -> {"flag-id", "flag-name", "deleted", "success"}

\* The handler went through its last call.
WentThrough ==
    /\ cmd \in Commands /\ pc = "done"
    /\ OpsSent = CallChain(cmd) /\ \A i \in 1..Len(reqs) : Accepted(i)

\* The value emitted under a name, as <<value>>: the content of the file, or
\* what the warning shows; <<>> when nothing shows it.
Emitted(name) ==
    IF name \in DOMAIN outputs.files THEN <<outputs.files[name]>>
    ELSE IF name \in DOMAIN outputs.warned THEN outputs.warned[name].shown
    ELSE <<>>

\* The JSON text of a value.
JsonOf(v) == [json |-> <<v>>]

\* C18: a command that went through exits zero whatever the output
\* directory is.  With the directory set and present, each of its outputs is
\* one file named by the key and holding the value, and nothing is warned;
\* with the variable not set no file is written and each output is printed
\* in a warning with its value; when the writes fail no file is written,
\* each failure is warned, and the command still succeeds.
C18_OutputsWrittenOrWarned ==
    WentThrough =>
        /\ exitCode = 0
        /\ OutputNames(cmd) \subseteq DOMAIN outputs.files \cup DOMAIN outputs.warned
        /\ args.outDir = "/out" =>
              /\ DOMAIN outputs.warned = {} /\ OutputNames(cmd) \subseteq DOMAIN outputs.files
              /\ "success" \in OutputNames(cmd) => outputs.files["success"] = "true"
              /\ cmd \in {"get-flag-config", "set-flag-config", "delete-flag"} =>
                    outputs.files["flag-id"] = resps[2].data.id
        /\ args.outDir = "" =>
              /\ DOMAIN outputs.files = {}
              /\ \A n \in DOMAIN outputs.warned :
                    outputs.warned[n].why = "not set" /\ Len(outputs.warned[n].shown) = 1
              /\ "success" \in OutputNames(cmd) => outputs.warned["success"].shown = <<"true">>
        /\ args.outDir = "/nodir" =>
              /\ DOMAIN outputs.files = {}
              /\ \A n \in DOMAIN outputs.warned : outputs.warned[n].why = "write failed"

C18_Witness ==
    /\ WentThrough /\ cmd = "delete-flag" /\ args.outDir = "" /\ exitCode = 0
    /\ DOMAIN outputs.files = {}
    /\ DOMAIN outputs.warned = OutputNames("delete-flag")
    /\ outputs.warned["deleted"] = [why |-> "not set", shown |-> <<"true">>]
    /\ server.flags = {}

\* C19: a get-flag-config that went through emitted exactly flag-config,
\* flag-id, environment-id, enabled and default-value; flag-id and
\* environment-id are the identifiers the resolutions returned, enabled is
\* "true" or "false" as the configuration on the server has it, and
\* default-value is the JSON text of the server's default value, "null" when
\* there is none.
C19_GetFlagConfigFiveOutputs ==
    (WentThrough /\ cmd = "get-flag-config") =>
        /\ exitCode = 0
        /\ DOMAIN outputs.files \cup DOMAIN outputs.warned = OutputNames("get-flag-config")
        /\ args.outDir # "/nodir" =>
              LET onServer == server.config[<<resps[2].data.id, environmentID>>]
              IN  /\ resps[4].data = onServer
                  /\ Emitted("flag-id") = <<resps[2].data.id>>
                  /\ FirstNamed(resps[3].data, args.environmentName, environmentID)
                  /\ Emitted("environment-id") = <<environmentID>>
                  /\ Emitted("enabled") =
                        IF onServer["enabled"] = JBool(TRUE) THEN <<"true">> ELSE <<"false">>
                  /\ Emitted("default-value") =
                        IF onServer["defaultValue"] = JNull THEN <<JsonOf(JNull)>>
                        ELSE <<JsonOf(onServer["defaultValue"])>>

C19_Witness ==
    /\ WentThrough /\ cmd = "get-flag-config" /\ args.outDir = "/out"
    /\ outputs.files["enabled"] = "true"
    /\ outputs.files["default-value"] = JsonOf(JNum("42"))
    /\ outputs.files["flag-id"] = "flag-1" /\ outputs.files["environment-id"] = "env-1"

\* The text of a count.
CountText == <<"1", "2", "3">>

\* C20: a list-environments or list-flags that went through succeeded and
\* emitted the count of the elements the API returned and the JSON array of
\* those elements, which are the environments of the organization or the
\* flags of the application; for an empty list the count is "0" and the
\* array "[]".
C20_ListCountAndArray ==
    (WentThrough /\ cmd \in {"list-environments", "list-flags"}) =>
        LET listed == resps[Len(resps)].data
            count == IF cmd = "list-flags" THEN "flag-count" ELSE "environment-count"
            list == IF cmd = "list-flags" THEN "flags" ELSE "environments"
        IN  /\ exitCode = 0
            /\ cmd = "list-flags" =>
                  /\ FirstNamed(resps[1].data, args.applicationName, reqs[2].app)
                  /\ listed = FlagList(server, reqs[2].app)
            /\ cmd = "list-environments" => listed = OrgEnvs(args.orgID)
            /\ DOMAIN outputs.files \cup DOMAIN outputs.warned = {count, list}
            /\ (args.outDir # "/nodir" /\ Len(listed) = 0) =>
                  (Emitted(count) = <<"0">> /\ Emitted(list) = <<JsonOf(<<>>)>>)
            /\ (args.outDir # "/nodir" /\ Len(listed) > 0) =>
                  (Emitted(count) = <<CountText[Len(listed)]>> /\ Emitted(list) = <<JsonOf(listed)>>)

C20_Witness ==
    /\ WentThrough /\ cmd = "list-environments" /\ args.orgID = "org-0" /\ args.outDir = "/out"
    /\ exitCode = 0
    /\ outputs.files["environment-count"] = "0"
    /\ outputs.files["environments"] = JsonOf(<<>>)
    /\ "No environments found" \in stdout

\* C21: delete-flag reads no configuration and no environment list: once the
\* application and the flag are resolved and the run is not a dry run, its
\* next request is the DELETE, also for a flag that is enabled on the
\* server.  When the server answers the DELETE of an enabled flag with its
\* rejection, the command fails with the server's status and body, writes
\* neither "deleted" nor "success", and the flag is still there.
C21_DeleteLeavesEnabledCheckToServer ==
    cmd = "delete-flag" =>
        /\ \A i \in 1..Len(reqs) : reqs[i].op \notin {"GetFlagConfiguration", "ListEnvironments"}
        /\ (Len(resps) = 2 /\ Accepted(1) /\ Accepted(2) /\ ~args.dryRun)
              => pc = "DeleteFlag"
        /\ Len(reqs) >= 3 =>
              /\ reqs[3].method = "DELETE" /\ reqs[3].op = "DeleteFlag"
              /\ reqs[3].flag = flag.id
        /\ (Len(resps) = 3 /\ resps[3].kind = "http" /\ resps[3].status = 400) =>
              /\ FlagEnabledSomewhere(server, reqs[3].flag)
              /\ pc = "done" /\ exitCode = 1
              /\ err.msg = "failed to delete flag"
              /\ err.status = 400 /\ err.body = resps[3].body
              /\ {"deleted", "success"} \cap (DOMAIN outputs.files \cup DOMAIN outputs.warned) = {}
              /\ server = serverAtStart
              /\ \E f \in server.flags : f.id = reqs[3].flag

C21_Witness ==
    /\ cmd = "delete-flag" /\ pc = "done" /\ exitCode = 1
    /\ Len(resps) = 3 /\ reqs[3].method = "DELETE"
    /\ FlagEnabledSomewhere(server, reqs[3].flag)
    /\ resps[3].status = 400 /\ err.body = "flag is enabled"
    /\ outputs = NoOutputs

\* C22: the application of an invocation is the first element of the fetched
\* list whose name is exactly the requested name, letter case included; of
\* two applications with the same name the earlier one is taken; the
\* resolution fails with "application not found" exactly when no element of
\* the list has the name.
C22_ApplicationIsFirstExactMatch ==
    (cmd \in ApplicationCommands /\ Len(resps) >= 1 /\ Accepted(1)) =>
        LET list == resps[1].data
            name == FlagValue(args, "applicationName")
            matches == {j \in 1..Len(list) : list[j].name = name}
        IN  /\ reqs[1].op = "ListApplications"
            /\ matches # {} =>
                  /\ \E j \in matches : application = list[j] /\ \A k \in matches : j <= k
                  /\ err.cause # "application not found"
            /\ matches = {} =>
                  /\ pc = "done" /\ exitCode = 1 /\ Len(reqs) = 1
                  /\ err = NotFoundErr("failed to get application", name, "application not found")
                  /\ application = NoEntity
            /\ (name = "app1" /\ list = ServerApps) => application.id = "app-1"
            /\ name = "APP1" => err.cause = "application not found"

C22_Witness ==
    /\ cmd = "list-flags" /\ args.applicationName = "app1"
    /\ Len(resps) = 2 /\ Accepted(1) /\ Accepted(2)
    /\ Cardinality({j \in 1..Len(resps[1].data) : resps[1].data[j].name = "app1"}) = 2
    /\ application.id = "app-1" /\ reqs[2].app = "app-1"

\* C23: in get-flag-config and set-flag-config, once the environment list
\* is fetched, the environment identifier is that of an element of the list
\* whose name is exactly the requested name (letter case included), and the
\* invocation fails with "environment not found" exactly when the list has
\* no element with that name; the request that follows carries the
\* identifier found.
C23_EnvironmentIsExactMatch ==
    (cmd \in {"get-flag-config", "set-flag-config"} /\ Len(resps) >= 3 /\ Accepted(3)) =>
        LET list == resps[3].data
            name == FlagValue(args, "environmentName")
            matches == {j \in 1..Len(list) : list[j].name = name}
        IN  /\ reqs[3].op = "ListEnvironments"
            /\ matches # {} =>
                  /\ \E j \in matches : environmentID = list[j].id
                  /\ err.msg # "environment not found"
                  /\ Len(reqs) >= 4 => reqs[4].env = environmentID
            /\ matches = {} =>
                  /\ pc = "done" /\ exitCode = 1 /\ Len(reqs) = 3
                  /\ err = NotFoundErr("environment not found", name, "")
                  /\ environmentID = ""
            /\ name = "DEV" => err.msg = "environment not found"
            /\ (name = "prod" /\ list = ServerEnvs) => environmentID = "env-0"

C23_Witness ==
    /\ cmd = "get-flag-config" /\ args.environmentName = "prod"
    /\ Len(resps) = 4 /\ Accepted(3) /\ Accepted(4)
    /\ resps[3].data = ServerEnvs
    /\ environmentID = "env-0" /\ reqs[4].env = "env-0"
    /\ exitCode = 0

\* The client method a handler is about to call, as the request it sends.
PendingOp == IF pc = "GetApplicationByName" THEN "ListApplications" ELSE pc

\* C25: no retry and no caching.  The requests of an invocation are one per
\* step of the command's chain, in the chain's order, each answered once;
\* a handler about to make a call has made every call before it in this
\* invocation, whatever earlier invocations fetched; a call that failed is
\* the last request of the invocation, which has ended with an error; at
\* most one mutating request is sent, and after it succeeded the invocation
\* is over and the server holds exactly what that request wrote.
C25_NoRetryNoCaching ==
    cmd \in Commands =>
        /\ Len(resps) = Len(reqs)
        /\ Len(reqs) <= Len(CallChain(cmd))
        /\ \A i \in 1..Len(reqs) : reqs[i].op = CallChain(cmd)[i]
        /\ \A i, j \in 1..Len(reqs) : reqs[i].op = reqs[j].op => i = j
        /\ pc \notin {"idle", "done"} =>
              /\ Len(reqs) < Len(CallChain(cmd))
              /\ PendingOp = CallChain(cmd)[Len(reqs) + 1]
              /\ \A i \in 1..Len(reqs) : Accepted(i)
        /\ \A i \in 1..Len(reqs) :
              ~Accepted(i) => (i = Len(reqs) /\ pc = "done" /\ exitCode = 1 /\ err # NoErr)
        /\ MutatingSent <= 1
        /\ \A i \in 1..Len(reqs) :
              reqs[i].method \in MutatingMethods =>
                  /\ i = Len(reqs) /\ pc = "done"
                  /\ server = ServerApply(serverAtStart, reqs[i], resps[i])

C25_Witness ==
    /\ cmd = "set-flag-config" /\ pc = "done" /\ exitCode = 1
    /\ lastGet.done
    /\ lastGet.names = <<args.applicationName, args.flagName, args.environmentName>>
    /\ OpsSent = <<"ListApplications", "GetFlagByName", "ListEnvironments", "SetFlagConfiguration">>
    /\ resps[4].kind = "http" /\ resps[4].status = 500
    /\ server = serverAtStart

\* C26: the body of the PUT that set-flag-config sends is the merged
\* mapping itself: it has a key exactly when the --config document has it
\* or an override for it is present, each with the override's value or else
\* the document's; a key that neither gives (enabled, variantsEnabled,
\* defaultValue, conditions) is not in the body with a default, and a key
\* of the document that no override names is passed as it is.
C26_PutBodyIsMergedMapping ==
    \A i \in 1..Len(reqs) :
        reqs[i].op = "SetFlagConfiguration" =>
            LET body == reqs[i].body
                doc == Document(args)
                merged == BuildConfigChanges(args.configYAML, Overrides(args))
            IN  /\ reqs[i].method = "PUT"
                /\ merged.err = "" /\ body = merged.changes
                /\ DOMAIN body = DOMAIN doc \cup OverrideKeys(args)
                /\ \A k \in DOMAIN doc \ OverrideKeys(args) : body[k] = doc[k]
                /\ args.enabled # "" => body["enabled"] = JBool(args.enabled \in ParseBoolTrue)
                /\ args.stickinessProperty # ""
                      => body["stickinessProperty"] = JStr(args.stickinessProperty)
                /\ \A k \in {"enabled", "variantsEnabled", "defaultValue", "conditions"} :
                      (k \notin DOMAIN doc /\ k \notin OverrideKeys(args)) => k \notin DOMAIN body
                /\ args.configYAML = DocUnknownKeys =>
                      /\ body["rollout"] = JNum("10")
                      /\ body["conditions"] = [t |-> "list", v |-> "[]"]

C26_Witness ==
    /\ cmd = "set-flag-config" /\ pc = "done" /\ exitCode = 0
    /\ args.configYAML = DocUnknownKeys /\ args.stickinessProperty = "email"
    /\ Len(reqs) = 4
    /\ DOMAIN reqs[4].body = {"conditions", "rollout", "stickinessProperty"}
    /\ server.config[<<reqs[4].flag, reqs[4].env>>]["rollout"] = JNum("10")

\* The names of the outputs written or warned about.
OutputsWritten == DOMAIN outputs.files \cup DOMAIN outputs.warned

\* C27: create-flag, set-flag-config and delete-flag write an output,
\* "success" included, only after their mutating request was answered with
\* success; a dry run, an invocation that failed in validation or in a
\* resolution, and one whose mutating request failed write no output at
\* all.  set-flag-config writes "enabled" exactly when the merged mapping
\* holds a boolean under "enabled", and with that boolean.
C27_OutputsOnlyAfterMutationSucceeded ==
    cmd \in DryRunCommands =>
        /\ OutputsWritten # {} =>
              /\ WentThrough /\ exitCode = 0 /\ ~args.dryRun
              /\ reqs[Len(reqs)].method \in MutatingMethods
              /\ Is2xx(resps[Len(resps)].status)
              /\ "success" \in OutputsWritten
        /\ (args.dryRun \/ exitCode # 0 \/ MutatingSent = 0) => outputs = NoOutputs
        /\ (cmd = "set-flag-config" /\ WentThrough) =>
              LET boolean == "enabled" \in DOMAIN configChanges /\ configChanges["enabled"].t = "bool"
              IN  /\ "enabled" \in OutputsWritten <=> boolean
                  /\ (boolean /\ args.outDir = "/out")
                        => outputs.files["enabled"] = configChanges["enabled"].v
                  /\ OutputNames(cmd) \subseteq OutputsWritten

C27_Witness ==
    /\ cmd = "set-flag-config" /\ WentThrough /\ exitCode = 0
    /\ args.configYAML = DocEnabledText
    /\ reqs[4].body["enabled"] = JStr("on")
    /\ "success" \in DOMAIN outputs.files
    /\ "enabled" \notin OutputsWritten

\* The inputs of set-flag-config that the merge rejects, with its message.
MergeRejects(a) ==
    IF a.configYAML # "" /\ ~YamlUnmarshal(a.configYAML).ok THEN "failed to parse config YAML"
    ELSE IF a.enabled # "" /\ ~ParseBool(a.enabled).ok THEN "invalid enabled value"
    ELSE IF a.variantsEnabled # "" /\ ~ParseBool(a.variantsEnabled).ok
    THEN "invalid variants-enabled value"
    ELSE ""

\* C28: a set-flag-config whose --enabled or --variants-enabled is not a
\* boolean text, or whose --config is not a mapping, never sends the PUT,
\* dry run or not; it fails with the message that names the bad input, and
\* does so only once the application, the flag and the environment have
\* been resolved over the network: the three resolution requests were sent
\* and answered before the error is raised.
C28_BadValuesFailAfterResolution ==
    (cmd = "set-flag-config" /\ MergeRejects(args) # "") =>
        /\ MutatingSent = 0
        /\ \A i \in 1..Len(reqs) : reqs[i].op # "SetFlagConfiguration"
        /\ pc = "done" => exitCode = 1
        /\ err.msg \in {"failed to parse config YAML", "invalid enabled value",
                        "invalid variants-enabled value"} =>
              /\ err = ValidationErr(MergeRejects(args))
              /\ OpsSent = <<"ListApplications", "GetFlagByName", "ListEnvironments">>
              /\ \A i \in 1..3 : Accepted(i)
              /\ application # NoEntity /\ flag # NoEntity /\ environmentID # ""
              /\ pc = "done" /\ outputs = NoOutputs
        /\ (pc = "done" /\ Len(reqs) = 3 /\ \A i \in 1..3 : Accepted(i)) /\ environmentID # ""
              => err = ValidationErr(MergeRejects(args))
        /\ Len(reqs) < 3 => err.msg # MergeRejects(args)

C28_Witness ==
    /\ cmd = "set-flag-config" /\ pc = "done" /\ exitCode = 1
    /\ args.enabled = "maybe" /\ args.configYAML = DocA /\ ~args.dryRun
    /\ err = ValidationErr("invalid enabled value")
    /\ Len(reqs) = 3 /\ Accepted(3)
    /\ server = serverAtStart

\* The merge of set-flag-config has run: the three resolutions succeeded.
Merged ==
    /\ cmd = "set-flag-config" /\ Len(reqs) >= 3
    /\ \A i \in 1..3 : Accepted(i)
    /\ environmentID # ""

\* C29: an override given as the empty text is no override: after the merge
\* its key is in the mapping only if the document has it, with the
\* document's value, and a set-flag-config with nothing but empty overrides
\* fails with "no configuration changes specified".  The text null as
\* --default-value is an override: the mapping then holds defaultValue with
\* the null value, is not empty, and the PUT is sent with it unless the run
\* is a dry run.
C29_EmptyOverrideAbsentNullPresent ==
    (Merged /\ MergeRejects(args) = "") =>
        /\ \A k \in {"enabled", "defaultValue", "variantsEnabled", "stickinessProperty"} :
              args[k] = "" =>
                  /\ k \in DOMAIN configChanges <=> k \in DOMAIN Document(args)
                  /\ k \in DOMAIN configChanges => configChanges[k] = Document(args)[k]
        /\ (OverrideKeys(args) = {} /\ DOMAIN Document(args) = {}) =>
              /\ err = ValidationErr("no configuration changes specified")
              /\ MutatingSent = 0
        /\ args.defaultValue = "null" =>
              /\ "defaultValue" \in DOMAIN configChanges
              /\ configChanges["defaultValue"] = JNull
              /\ err.msg # "no configuration changes specified"
              /\ ~args.dryRun => (pc = "SetFlagConfiguration" \/ Len(reqs) = 4)
              /\ Len(reqs) = 4 =>
                    /\ reqs[4].method = "PUT"
                    /\ "defaultValue" \in DOMAIN reqs[4].body
                    /\ reqs[4].body["defaultValue"] = JNull

C29_Witness ==
    /\ Merged /\ pc = "done" /\ exitCode = 0
    /\ args.defaultValue = "null" /\ args.enabled = "" /\ args.configYAML = ""
    /\ Len(reqs) = 4 /\ Accepted(4)
    /\ reqs[4].body = ("defaultValue" :> JNull)
    /\ server.config[<<reqs[4].flag, reqs[4].env>>]["defaultValue"] = JNull

\* C30: for a create-flag without --variants the flag type picks the
\* default variants whatever its letter case (NUMBER and Number both give
\* ["0","1"], string and String ["option1","option2"]); a type that is none
\* of boolean, string and number gets ["true","false"] and the request is
\* sent all the same; the type text goes to the API as it was given.
C30_TypeMatchedCaseInsensitively ==
    (cmd = "create-flag" /\ args.variantsStr = "") =>
        /\ \A i \in 1..Len(reqs) :
              reqs[i].op = "CreateFlag" =>
                  LET t == FlagValue(args, "flagType")
                      body == reqs[i].body
                  IN  /\ body.flagType = t
                      /\ t \in {"Number", "NUMBER"} => body.variants = <<"0", "1">>
                      /\ t \in {"String", "string"} => body.variants = <<"option1", "option2">>
                      /\ t = "Boolean" => body.variants = <<"true", "false">>
                      /\ t \notin {"Number", "NUMBER", "String", "string", "Boolean"}
                            => body.variants = <<"true", "false">>
        /\ (~args.dryRun /\ Len(reqs) >= 1 /\ Accepted(1) /\ application # NoEntity) =>
              (pc = "CreateFlag" \/ (Len(reqs) = 2 /\ reqs[2].op = "CreateFlag"))

C30_Witness ==
    /\ cmd = "create-flag" /\ pc = "done" /\ exitCode = 0
    /\ args.variantsStr = "" /\ args.flagType = "NUMBER"
    /\ Len(reqs) = 2 /\ reqs[2].op = "CreateFlag"
    /\ reqs[2].body.flagType = "NUMBER"
    /\ reqs[2].body.variants = <<"0", "1">>

\* The client methods whose path names an application, and those whose path
\* names the organization only.
FlagScopedOps ==
    {"GetFlagByName", "ListFlags", "CreateFlag", "DeleteFlag", "GetFlagConfiguration",
     "SetFlagConfiguration", "UpdateFlagConfiguration"}

OrgLevelOps == {"ListEnvironments", "ListApplications"}

\* A call of a method of the client: the mode of the client is what it was,
\* a flag-scoped request has in its application position the organization
\* ID when the mode is on and the application ID passed when it is off, and
\* an organization-level request is the same in either mode.
LegacyModeStep ==
    /\ client' = client
    /\ reqs' # <<>> =>
          LET r == reqs'[1]
              other == [client EXCEPT !.useOrgAsApp = ~client.useOrgAsApp]
          IN  /\ r.op \in FlagScopedOps \cup OrgLevelOps
              /\ r.org = client.orgID
              /\ r.op \in FlagScopedOps =>
                    r.app = IF client.useOrgAsApp THEN client.orgID ELSE application'.id
              /\ r.op = "ListEnvironments" => r = ListEnvironmentsRequest(other)
              /\ r.op = "ListApplications" => r = ListApplicationsRequest(other)

\* C24: the legacy mode is fixed when the client is built and no call
\* changes it; with the mode on every flag-scoped call (flag by name, list
\* flags, create, delete, get and set configuration) sends the organization
\* ID in the application position whatever application ID it was passed,
\* with the mode off it sends the application ID passed; list environments
\* and list applications send the same request in both modes.
C24_LegacyModeFixedPerClient == [][LegacyModeStep]_vars

C24_Witness ==
    /\ pc = "client" /\ client.useOrgAsApp
    /\ Len(reqs) = 1 /\ reqs[1].op = "SetFlagConfiguration"
    /\ application.id = "app-1" /\ reqs[1].app = OrgID
    /\ resps[1].kind = "http" /\ resps[1].status = 200
    /\ \E f \in server.flags : f.app = OrgID /\ f.id = reqs[1].flag

====
